---------------------------- MODULE Spec2Model ----------------------------
(***************************************************************************)
(* ClaudeSync OpenAI-compatible shim: the chat-completions handler of      *)
(* api_routes.py, its translator functions and the provider calls it       *)
(* makes.                                                                  *)
(*                                                                         *)
(* Text is a sequence of tokens.  Each token stands for the characters it  *)
(* is written with, and a text stands for the concatenation of its tokens. *)
(* The backtick only occurs in the token FENCE and a line break only in    *)
(* the token NL, so a match of the regular expression of api_routes.py on  *)
(* the characters is a match on the tokens and conversely.                 *)
(***************************************************************************)
EXTENDS Integers, Sequences, FiniteSets, TLC

VARIABLES
    store,      \* config: session key, active organization, active project
    provider,   \* config_logging.claude_provider: "ok", or None when its construction failed
    pc,         \* position of the request being served
    request,    \* the request being served (or the last one served)
    locals,     \* chat_completions' local variables that live across provider calls
    calls,      \* provider operations invoked while serving the request, in order
    response    \* the response of the last request served

vars == <<store, provider, pc, request, locals, calls, response>>

----------------------------------------------------------------------------
(* Bounds of the model.                                                    *)

MaxMessages == 2
MaxPieces == 3
MaxTime == 1

----------------------------------------------------------------------------
(* Tokens.                                                                 *)

\* three backticks (a TLA+ string cannot hold the character)
FENCE == "<fence>"
FUNCTION == "function"
NL == "\n"
SP == " "

\* Python's None; also what the JSON literal null decodes to.
None == <<"null", "">>

\* str.strip() removes these from both ends.
IsSpace(c) == c \in {NL, SP}

Min(S) == CHOOSE x \in S : \A y \in S : x <= y
Max(S) == CHOOSE x \in S : \A y \in S : x >= y

RECURSIVE Flatten(_)
Flatten(ss) == IF ss = <<>> THEN <<>> ELSE Head(ss) \o Flatten(Tail(ss))

\* str.lstrip() in the place of str.strip()
StripLeading(t) ==
    LET keep == {i \in 1..Len(t) : ~IsSpace(t[i])}
    IN  IF keep = {} THEN <<>> ELSE SubSeq(t, Min(keep), Len(t))

\* str.strip()
Strip(t) ==
    LET keep == {i \in 1..Len(t) : ~IsSpace(t[i])}
    IN  IF keep = {} THEN <<>> ELSE SubSeq(t, Min(keep), Max(keep))

----------------------------------------------------------------------------
(* The regular expression r'<fence>function\n(.*?)\n<fence>', re.DOTALL.   *)

\* the literal prefix <fence>function\n at position i
OpenAt(t, i) ==
    /\ i >= 1
    /\ i + 2 <= Len(t)
    /\ t[i] = FENCE
    /\ t[i + 1] = FUNCTION
    /\ t[i + 2] = NL

\* the literal suffix \n<fence> at position j
CloseAt(t, j) ==
    /\ j >= 1
    /\ j + 1 <= Len(t)
    /\ t[j] = NL
    /\ t[j + 1] = FENCE

\* (.*?) is non-greedy: the match opened at i closes at the first suffix
\* that leaves the prefix whole.  0 when there is none.
MatchClose(t, i) ==
    LET js == {j \in (i + 3)..Len(t) : CloseAt(t, j)}
    IN  IF js = {} THEN 0 ELSE Min(js)

\* re.search scans left to right: the leftmost position at or after `from`
\* where the pattern matches.  0 when there is none.
Search(t, from) ==
    LET is == {i \in from..Len(t) : OpenAt(t, i) /\ MatchClose(t, i) # 0}
    IN  IF is = {} THEN 0 ELSE Min(is)

----------------------------------------------------------------------------
(* JSON.  A decoded value is <<tag, payload>>: "null", "bool", "num" and   *)
(* "str" carry a string, "arr" a sequence of values, "obj" a sequence of   *)
(* <<key, value>> pairs in insertion order with distinct keys (a dict).    *)

Strings ==
    {"name", "arguments", "foo", "bar", "x", "",
     "error", "message", "resetsAt", "limit",
     "{}", "[]", "{\"resetsAt\": 1}", "{\"resetsAt\": \"x\"}"}

\* the JSON string literal of s
Quoted(s) ==
    CASE s = "name" -> "\"name\""
      [] s = "arguments" -> "\"arguments\""
      [] s = "foo" -> "\"foo\""
      [] s = "bar" -> "\"bar\""
      [] s = "x" -> "\"x\""
      [] s = "" -> "\"\""
      [] s = "error" -> "\"error\""
      [] s = "message" -> "\"message\""
      [] s = "resetsAt" -> "\"resetsAt\""
      [] s = "limit" -> "\"limit\""
      [] s = "{}" -> "\"{}\""
      [] s = "[]" -> "\"[]\""
      [] s = "{\"resetsAt\": 1}" -> "\"{\\\"resetsAt\\\": 1}\""
      [] s = "{\"resetsAt\": \"x\"}" -> "\"{\\\"resetsAt\\\": \\\"x\\\"}\""

StrTok == {Quoted(s) : s \in Strings}
Unquote(tok) == CHOOSE s \in Strings : Quoted(s) = tok
NumTok == {"0", "1"}
BoolTok == {"true", "false"}

JStr(s) == <<"str", s>>
JNum(n) == <<"num", n>>
JArr(vs) == <<"arr", vs>>
JObj(ps) == <<"obj", ps>>
EmptyDict == JObj(<<>>)

IsDict(v) == v[1] = "obj"

\* bool(v) in Python
Truthy(v) ==
    CASE v[1] = "null" -> FALSE
      [] v[1] = "bool" -> v[2] = "true"
      [] v[1] = "num" -> v[2] # "0"
      [] v[1] = "str" -> v[2] # ""
      [] v[1] = "arr" -> v[2] # <<>>
      [] v[1] = "obj" -> v[2] # <<>>

\* d[key] = val
DictPut(ps, key, val) ==
    IF \E i \in 1..Len(ps) : ps[i][1] = key
    THEN [i \in 1..Len(ps) |-> IF ps[i][1] = key THEN <<key, val>> ELSE ps[i]]
    ELSE Append(ps, <<key, val>>)

\* d.get(key, default)
DictGet(d, key, default) ==
    LET ps == d[2]
        hit == {i \in 1..Len(ps) : ps[i][1] = key}
    IN  IF hit = {} THEN default ELSE ps[Min(hit)][2]

\* the decoder skips whitespace between the tokens of a document
SkipWs(t, i) ==
    LET rest == {k \in i..Len(t) : ~IsSpace(t[k])}
    IN  IF rest = {} THEN Len(t) + 1 ELSE Min(rest)

DecodeError == [ok |-> FALSE, val |-> None, next |-> 0]
Decoded(v, n) == [ok |-> TRUE, val |-> v, next |-> n]

RECURSIVE ParseValue(_, _)
RECURSIVE ParseElements(_, _, _)
RECURSIVE ParseMembers(_, _, _)

\* one JSON value starting at token i
ParseValue(t, i) ==
    IF i > Len(t) THEN DecodeError
    ELSE CASE t[i] \in StrTok -> Decoded(JStr(Unquote(t[i])), i + 1)
           [] t[i] \in NumTok -> Decoded(JNum(t[i]), i + 1)
           [] t[i] \in BoolTok -> Decoded(<<"bool", t[i]>>, i + 1)
           [] t[i] = "null" -> Decoded(None, i + 1)
           [] t[i] = "[" ->
                LET k == SkipWs(t, i + 1)
                IN  IF k <= Len(t) /\ t[k] = "]"
                    THEN Decoded(JArr(<<>>), k + 1)
                    ELSE ParseElements(t, k, <<>>)
           [] t[i] = "{" ->
                LET k == SkipWs(t, i + 1)
                IN  IF k <= Len(t) /\ t[k] = "}"
                    THEN Decoded(EmptyDict, k + 1)
                    ELSE ParseMembers(t, k, <<>>)
           [] OTHER -> DecodeError

\* the elements of an array, the first of them at token i
ParseElements(t, i, acc) ==
    LET v == ParseValue(t, i)
        k == SkipWs(t, v.next)
    IN  IF ~v.ok \/ k > Len(t) THEN DecodeError
        ELSE IF t[k] = "," THEN ParseElements(t, SkipWs(t, k + 1), Append(acc, v.val))
        ELSE IF t[k] = "]" THEN Decoded(JArr(Append(acc, v.val)), k + 1)
        ELSE DecodeError

\* the members of an object, the first key at token i; a repeated key keeps
\* its place and takes the last value
ParseMembers(t, i, acc) ==
    IF i > Len(t) \/ t[i] \notin StrTok THEN DecodeError
    ELSE LET c == SkipWs(t, i + 1)
         IN  IF c > Len(t) \/ t[c] # ":" THEN DecodeError
             ELSE LET v == ParseValue(t, SkipWs(t, c + 1))
                      k == SkipWs(t, v.next)
                      d == DictPut(acc, Unquote(t[i]), v.val)
                  IN  IF ~v.ok \/ k > Len(t) THEN DecodeError
                      ELSE IF t[k] = "," THEN ParseMembers(t, SkipWs(t, k + 1), d)
                      ELSE IF t[k] = "}" THEN Decoded(JObj(d), k + 1)
                      ELSE DecodeError

\* json.loads: one value, whitespace around it, nothing after it
Loads(t) ==
    LET v == ParseValue(t, SkipWs(t, 1))
    IN  IF v.ok /\ SkipWs(t, v.next) = Len(t) + 1 THEN v ELSE DecodeError

RECURSIVE Dumps(_)
RECURSIVE DumpItems(_, _)

\* json.dumps with the default separators ", " and ": "
Dumps(v) ==
    CASE v[1] = "str" -> <<Quoted(v[2])>>
      [] v[1] = "arr" -> <<"[">> \o DumpItems(v[2], FALSE) \o <<"]">>
      [] v[1] = "obj" -> <<"{">> \o DumpItems(v[2], TRUE) \o <<"}">>
      [] v[1] = "null" -> <<"null">>
      [] OTHER -> <<v[2]>>

DumpItems(items, keyed) ==
    IF items = <<>> THEN <<>>
    ELSE LET one == IF keyed
                    THEN <<Quoted(Head(items)[1]), ":", SP>> \o Dumps(Head(items)[2])
                    ELSE Dumps(Head(items))
         IN  IF Len(items) = 1 THEN one
             ELSE one \o <<",", SP>> \o DumpItems(Tail(items), keyed)


----------------------------------------------------------------------------
(* Python values other than text are the tagged values above: a stored     *)
(* key, an organization id or a header value is JStr(..) or None.          *)

\* the text an f-string writes for v
FStr(v) == IF v[1] = "null" THEN "None" ELSE v[2]

\* d.get(key, default) on a request body or a tool declaration (a record)
Get(d, key, default) == IF key \in DOMAIN d THEN d[key] ELSE default

----------------------------------------------------------------------------
(* api_routes.py: the translator functions.                                *)

FunctionsHeader == <<"You have access to the following functions:", NL, NL>>

FunctionsFooter ==
    << "When you need to call a function, please output the function call in the following format, starting and ending with triple backticks and 'function':", NL,
       FENCE, FUNCTION, NL,
       "{", NL,
       SP, SP, "\"name\"", ":", SP, "\"<function_name>\"", ",", NL,
       SP, SP, "\"arguments\"", ":", SP, "<arguments in JSON format>", NL,
       "}", NL,
       FENCE, NL,
       "Please do not include any other text inside the function call block.", NL,
       "After the function call block, please continue with any additional information or answers you may have.", NL >>

\* one line of the parameter list of a function
ParamLine(p, required) ==
    << SP, "-", SP, p.name, SP, "(", Get(p, "type", "string") >>
    \o (IF p.name \in required THEN <<",", SP, "required">> ELSE <<>>)
    \o << ")", ":", SP >> \o Get(p, "description", <<>>) \o << NL >>

\* the description of one tool; only tools of type 'function' are described
ToolLines(tool) ==
    IF tool.type # "function" THEN <<>>
    ELSE LET f == tool.function
             parameters == Get(f, "parameters", [properties |-> <<>>, required |-> {}])
             props == Get(parameters, "properties", <<>>)
             required == Get(parameters, "required", {})
         IN  << "Function Name", ":", SP, Get(f, "name", "None"), NL,
                "Description", ":", SP, Get(f, "description", "None"), NL,
                "Parameters", ":", NL >>
             \o Flatten([i \in 1..Len(props) |-> ParamLine(props[i], required)])
             \o <<NL>>

generate_functions_prompt(tools) ==
    IF tools = <<>> THEN <<>>
    ELSE FunctionsHeader
         \o Flatten([i \in 1..Len(tools) |-> ToolLines(tools[i])])
         \o FunctionsFooter

RECURSIVE ConvertMessages(_)

\* ConvertMessages with the assistant branch a copy of the user branch
ConvertMessagesCopied(messages) ==
    IF messages = <<>> THEN <<>>
    ELSE LET m == Head(messages)
             rest == ConvertMessages(Tail(messages))
         IN  CASE m.role = "system" -> <<[role |-> "System", content |-> m.content]>> \o rest
               [] m.role = "user" -> <<[role |-> "Human", content |-> m.content]>> \o rest
               [] m.role = "assistant" -> <<[role |-> "Human", content |-> m.content]>> \o rest
               [] OTHER -> rest

\* ConvertMessages with a final else that takes any other role for the user's
ConvertMessagesElse(messages) ==
    IF messages = <<>> THEN <<>>
    ELSE LET m == Head(messages)
             rest == ConvertMessages(Tail(messages))
         IN  CASE m.role = "system" -> <<[role |-> "System", content |-> m.content]>> \o rest
               [] m.role = "assistant" -> <<[role |-> "Assistant", content |-> m.content]>> \o rest
               [] OTHER -> <<[role |-> "Human", content |-> m.content]>> \o rest

\* The first loop of chat_completions: OpenAI messages to Claude.ai messages.
\* A message whose role is none of the three is passed over.
ConvertMessages(messages) ==
    IF messages = <<>> THEN <<>>
    ELSE LET m == Head(messages)
             rest == ConvertMessages(Tail(messages))
         IN  CASE m.role = "system" -> <<[role |-> "System", content |-> m.content]>> \o rest
               [] m.role = "user" -> <<[role |-> "Human", content |-> m.content]>> \o rest
               [] m.role = "assistant" -> <<[role |-> "Assistant", content |-> m.content]>> \o rest
               [] OTHER -> rest

\* claude_messages with the functions prompt appended after the messages
claude_messages_last(tools, messages) ==
    LET functions_prompt == generate_functions_prompt(tools)
    IN  ConvertMessages(messages)
        \o (IF functions_prompt # <<>>
            THEN <<[role |-> "System", content |-> functions_prompt]>>
            ELSE <<>>)

\* The first loop of chat_completions, behind the functions prompt.
claude_messages(tools, messages) ==
    LET functions_prompt == generate_functions_prompt(tools)
    IN  (IF functions_prompt # <<>>
         THEN <<[role |-> "System", content |-> functions_prompt]>>
         ELSE <<>>)
        \o ConvertMessages(messages)

\* The second loop of chat_completions: the prompt for Claude.ai.
RECURSIVE BuildPrompt(_)
BuildPrompt(msgs) ==
    IF msgs = <<>> THEN <<>>
    ELSE LET msg == Head(msgs)
         IN  (IF msg.role \in {"System", "Human", "Assistant"}
              THEN <<msg.role, ":", SP>> \o msg.content \o <<NL, NL>>
              ELSE <<>>)
             \o BuildPrompt(Tail(msgs))

\* What parse_claude_response does: its pair, or the exception it lets out.
ParseResult(name, arguments) == [raised |-> "", name |-> name, arguments |-> arguments]
ParseRaised(exc) == [raised |-> exc, name |-> None, arguments |-> None]

\* parse_claude_response with .get('arguments') and no default
parse_claude_response_no_default(response_text) ==
    LET i == Search(response_text, 1)
    IN  IF i = 0 THEN ParseResult(None, None)
        ELSE LET function_call_text == SubSeq(response_text, i + 3, MatchClose(response_text, i) - 1)
                 loaded == Loads(function_call_text)
             IN  IF ~loaded.ok THEN ParseResult(None, None)
                 ELSE IF ~IsDict(loaded.val) THEN ParseRaised("AttributeError")
                 ELSE ParseResult(DictGet(loaded.val, "name", None),
                                  DictGet(loaded.val, "arguments", None))

\* parse_claude_response without its except clause
parse_claude_response_uncaught(response_text) ==
    LET i == Search(response_text, 1)
    IN  IF i = 0 THEN ParseResult(None, None)
        ELSE LET function_call_text == SubSeq(response_text, i + 3, MatchClose(response_text, i) - 1)
                 loaded == Loads(function_call_text)
             IN  IF ~loaded.ok THEN ParseRaised("JSONDecodeError")
                 ELSE IF ~IsDict(loaded.val) THEN ParseRaised("AttributeError")
                 ELSE ParseResult(DictGet(loaded.val, "name", None),
                                  DictGet(loaded.val, "arguments", EmptyDict))

parse_claude_response(response_text) ==
    LET i == Search(response_text, 1)
    IN  IF i = 0 THEN ParseResult(None, None)
        ELSE LET function_call_text == SubSeq(response_text, i + 3, MatchClose(response_text, i) - 1)
                 loaded == Loads(function_call_text)
             IN  IF ~loaded.ok THEN ParseResult(None, None)
                 ELSE IF ~IsDict(loaded.val) THEN ParseRaised("AttributeError")
                 ELSE ParseResult(DictGet(loaded.val, "name", None),
                                  DictGet(loaded.val, "arguments", EmptyDict))

\* re.sub with count=1: the first match only
SubFirst(t, from) ==
    LET i == Search(t, from)
    IN  IF i = 0 THEN SubSeq(t, from, Len(t))
        ELSE SubSeq(t, from, i - 1) \o SubSeq(t, MatchClose(t, i) + 2, Len(t))

\* re.sub replaces every match, scanning on from the end of the last one
RECURSIVE SubAll(_, _)
SubAll(t, from) ==
    LET i == Search(t, from)
    IN  IF i = 0 THEN SubSeq(t, from, Len(t))
        ELSE SubSeq(t, from, i - 1) \o SubAll(t, MatchClose(t, i) + 2)

remove_function_call_block(response_text) == Strip(SubAll(response_text, 1))


----------------------------------------------------------------------------
(* Responses.                                                              *)

NoResponse == [status |-> 0]
Respond(status, body) == [status |-> status, body |-> body]
ErrorResponse(status, message) == Respond(status, [error |-> message])

\* the body with finish_reason "function_call" when a call is answered
chat_completion_function_call(chat_id, model, message) ==
    [id |-> <<"chatcmpl-", FStr(chat_id)>>,
     object |-> "chat.completion",
     model |-> model,
     choices |-> << [index |-> 0,
                     message |-> message,
                     finish_reason |-> IF "function_call" \in DOMAIN message
                                       THEN "function_call" ELSE "stop"] >>,
     usage |-> [prompt_tokens |-> -1,
                completion_tokens |-> -1,
                total_tokens |-> -1]]

\* The body of the response, the same in the two branches but for its
\* message ('created', the time of the answer, is left out).
chat_completion(chat_id, model, message) ==
    [id |-> <<"chatcmpl-", FStr(chat_id)>>,
     object |-> "chat.completion",
     model |-> model,
     choices |-> << [index |-> 0,
                     message |-> message,
                     finish_reason |-> "stop"] >>,
     usage |-> [prompt_tokens |-> -1,
                completion_tokens |-> -1,
                total_tokens |-> -1]]

\* the response with response_content where assistant_content belongs
openai_response_raw_content(chat_id, model, response_content) ==
    LET parsed == parse_claude_response(response_content)
        function_name == parsed.name
        arguments == parsed.arguments
        message ==
            IF Truthy(function_name)
            THEN [role |-> "assistant",
                  content |-> response_content,
                  function_call |-> [name |-> function_name,
                                     arguments |-> Dumps(arguments)]]
            ELSE [role |-> "assistant", content |-> response_content]
    IN  IF parsed.raised # ""
        THEN ErrorResponse(500, <<"Unexpected error: ", parsed.raised>>)
        ELSE Respond(200, chat_completion(chat_id, model, message))

\* The response chat_completions builds from the accumulated completion:
\* the function-call branch, the plain branch, or the handler of the
\* exception parse_claude_response lets out ('except Exception').
openai_response(chat_id, model, response_content) ==
    LET parsed == parse_claude_response(response_content)
        function_name == parsed.name
        arguments == parsed.arguments
        message ==
            IF Truthy(function_name)
            THEN [role |-> "assistant",
                  content |-> remove_function_call_block(response_content),
                  function_call |-> [name |-> function_name,
                                     arguments |-> Dumps(arguments)]]
            ELSE [role |-> "assistant", content |-> response_content]
    IN  IF parsed.raised # ""
        THEN ErrorResponse(500, <<"Unexpected error: ", parsed.raised>>)
        ELSE Respond(200, chat_completion(chat_id, model, message))

\* the loop over the events that takes the text of completion only
RECURSIVE AccumulateCompletion(_, _)
AccumulateCompletion(events, response_content) ==
    IF events = <<>> THEN [raised |-> "", text |-> response_content]
    ELSE LET event == Head(events)
         IN  IF event[1] # "dict"
             THEN AccumulateCompletion(Tail(events), response_content \o event[2])
             ELSE IF "completion" \in DOMAIN event[2]
             THEN AccumulateCompletion(Tail(events), response_content \o event[2].completion)
             ELSE IF "error" \in DOMAIN event[2]
             THEN [raised |-> "ProviderError", text |-> response_content]
             ELSE AccumulateCompletion(Tail(events), response_content)

\* The loop over the events of send_message.  An event is a dict
\* (<<"dict", its keys>>) or anything else, which str() turns into text
\* (<<"str", the text>>).
RECURSIVE Accumulate(_, _)
Accumulate(events, response_content) ==
    IF events = <<>> THEN [raised |-> "", text |-> response_content]
    ELSE LET event == Head(events)
         IN  IF event[1] # "dict"
             THEN Accumulate(Tail(events), response_content \o event[2])
             ELSE IF "completion" \in DOMAIN event[2]
             THEN Accumulate(Tail(events), response_content \o event[2].completion)
             ELSE IF "content" \in DOMAIN event[2]
             THEN Accumulate(Tail(events), response_content \o event[2].content)
             ELSE IF "error" \in DOMAIN event[2]
             THEN [raised |-> "ProviderError", text |-> response_content]
             ELSE Accumulate(Tail(events), response_content)

----------------------------------------------------------------------------
(* The Session/Config Store: a session key with its expiry and the         *)
(* settings.  What is set is what is got.                                  *)

set_session_key(st, session_key, expiry) ==
    [st EXCEPT !.session_key = session_key, !.session_key_expiry = expiry]

\* the pair (session key, expiry)
get_session_key(st) == <<st.session_key, st.session_key_expiry>>

config_set(st, key, value) == [st EXCEPT ![key] = value]
config_get(st, key) == st[key]

----------------------------------------------------------------------------
(* auth_routes.py: the before_request hook.                                *)

AuthExempt == {"login", "config", "index", "check_login"}

\* check_auth with list_organizations among the endpoints let through
check_auth_listing_exempt(r, st) ==
    IF r.method = "OPTIONS" THEN Respond(204, "")
    ELSE IF r.endpoint \notin (AuthExempt \cup {"list_organizations"})
            /\ ~Truthy(get_session_key(st)[1])
    THEN ErrorResponse(401, "Not authenticated. Please log in first.")
    ELSE NoResponse

\* NoResponse when the request goes on to its handler
check_auth(r, st) ==
    IF r.method = "OPTIONS" THEN Respond(204, "")
    ELSE IF r.endpoint \notin AuthExempt /\ ~Truthy(get_session_key(st)[1])
    THEN ErrorResponse(401, "Not authenticated. Please log in first.")
    ELSE NoResponse

----------------------------------------------------------------------------
(* api_routes.py: chat_completions up to its first provider call.          *)

NoLocals == [organization_id |-> None, project_id |-> None, chat_id |-> None,
             prompt |-> <<>>, model |-> ""]

Answer(resp) == [pc |-> "idle", response |-> resp, locals |-> NoLocals]
GoOn(to, ls) == [pc |-> to, response |-> NoResponse, locals |-> ls]

\* chat_prologue with the header looked at before the organization
chat_prologue_header_first(r, st, prov) ==
    IF r.method = "OPTIONS" THEN Answer(Respond(204, ""))
    ELSE IF prov = None
    THEN Answer(ErrorResponse(500, "ClaudeAIProvider is not initialized"))
    ELSE IF r.content_type # "application/json"
    THEN Answer(ErrorResponse(415, "Unsupported Media Type: Content-Type must be application/json"))
    ELSE IF r.body.kind = "invalid"
    THEN Answer(ErrorResponse(400, "400 Bad Request: Failed to decode JSON object"))
    ELSE IF r.body.kind = "null"
    THEN Answer(ErrorResponse(400, "400 Bad Request: Invalid JSON data"))
    ELSE LET data == r.body.data
             tools == Get(data, "tools", <<>>)
             messages == Get(data, "messages", <<>>)
             max_tokens == Get(data, "max_tokens", 1000)
             model == Get(data, "model", "claude-3.5-sonnet")
             prompt == BuildPrompt(claude_messages(tools, messages))
             organization_id == config_get(st, "active_organization_id")
             project_id == config_get(st, "active_project_id")
             chat_id == r.chat_id_header
             ls == [organization_id |-> organization_id, project_id |-> project_id,
                    chat_id |-> chat_id, prompt |-> prompt, model |-> model]
         IN  IF Truthy(chat_id) THEN GoOn("send_message", ls)
             ELSE IF ~Truthy(organization_id)
             THEN Answer(ErrorResponse(400, "No active organization set"))
             ELSE GoOn("create_chat", ls)

\* chat_prologue with the organization looked at before the request
chat_prologue_organization_first(r, st, prov) ==
    IF r.method = "OPTIONS" THEN Answer(Respond(204, ""))
    ELSE IF prov = None
    THEN Answer(ErrorResponse(500, "ClaudeAIProvider is not initialized"))
    ELSE IF ~Truthy(config_get(st, "active_organization_id"))
    THEN Answer(ErrorResponse(400, "No active organization set"))
    ELSE IF r.content_type # "application/json"
    THEN Answer(ErrorResponse(415, "Unsupported Media Type: Content-Type must be application/json"))
    ELSE IF r.body.kind = "invalid"
    THEN Answer(ErrorResponse(400, "400 Bad Request: Failed to decode JSON object"))
    ELSE IF r.body.kind = "null"
    THEN Answer(ErrorResponse(400, "400 Bad Request: Invalid JSON data"))
    ELSE LET data == r.body.data
             tools == Get(data, "tools", <<>>)
             messages == Get(data, "messages", <<>>)
             max_tokens == Get(data, "max_tokens", 1000)
             model == Get(data, "model", "claude-3.5-sonnet")
             prompt == BuildPrompt(claude_messages(tools, messages))
             organization_id == config_get(st, "active_organization_id")
             project_id == config_get(st, "active_project_id")
             chat_id == r.chat_id_header
             ls == [organization_id |-> organization_id, project_id |-> project_id,
                    chat_id |-> chat_id, prompt |-> prompt, model |-> model]
         IN  IF ~Truthy(organization_id)
             THEN Answer(ErrorResponse(400, "No active organization set"))
             ELSE IF Truthy(chat_id) THEN GoOn("send_message", ls)
             ELSE GoOn("create_chat", ls)

\* chat_prologue with max_tokens a ceiling on the prompt
chat_prologue_ceiling(r, st, prov) ==
    IF r.method = "OPTIONS" THEN Answer(Respond(204, ""))
    ELSE IF prov = None
    THEN Answer(ErrorResponse(500, "ClaudeAIProvider is not initialized"))
    ELSE IF r.content_type # "application/json"
    THEN Answer(ErrorResponse(415, "Unsupported Media Type: Content-Type must be application/json"))
    ELSE IF r.body.kind = "invalid"
    THEN Answer(ErrorResponse(400, "400 Bad Request: Failed to decode JSON object"))
    ELSE IF r.body.kind = "null"
    THEN Answer(ErrorResponse(400, "400 Bad Request: Invalid JSON data"))
    ELSE LET data == r.body.data
             tools == Get(data, "tools", <<>>)
             messages == Get(data, "messages", <<>>)
             max_tokens == Get(data, "max_tokens", 1000)
             model == Get(data, "model", "claude-3.5-sonnet")
             whole == BuildPrompt(claude_messages(tools, messages))
             prompt == SubSeq(whole, 1, IF max_tokens < Len(whole) THEN max_tokens ELSE Len(whole))
             organization_id == config_get(st, "active_organization_id")
             project_id == config_get(st, "active_project_id")
             chat_id == r.chat_id_header
             ls == [organization_id |-> organization_id, project_id |-> project_id,
                    chat_id |-> chat_id, prompt |-> prompt, model |-> model]
         IN  IF ~Truthy(organization_id)
             THEN Answer(ErrorResponse(400, "No active organization set"))
             ELSE IF Truthy(chat_id) THEN GoOn("send_message", ls)
             ELSE GoOn("create_chat", ls)

chat_prologue(r, st, prov) ==
    IF r.method = "OPTIONS" THEN Answer(Respond(204, ""))
    ELSE IF prov = None
    THEN Answer(ErrorResponse(500, "ClaudeAIProvider is not initialized"))
    ELSE IF r.content_type # "application/json"
    THEN Answer(ErrorResponse(415, "Unsupported Media Type: Content-Type must be application/json"))
    ELSE IF r.body.kind = "invalid"
    THEN Answer(ErrorResponse(400, "400 Bad Request: Failed to decode JSON object"))
    ELSE IF r.body.kind = "null"
    THEN Answer(ErrorResponse(400, "400 Bad Request: Invalid JSON data"))
    ELSE LET data == r.body.data
             tools == Get(data, "tools", <<>>)
             messages == Get(data, "messages", <<>>)
             max_tokens == Get(data, "max_tokens", 1000)
             model == Get(data, "model", "claude-3.5-sonnet")
             prompt == BuildPrompt(claude_messages(tools, messages))
             organization_id == config_get(st, "active_organization_id")
             project_id == config_get(st, "active_project_id")
             chat_id == r.chat_id_header
             ls == [organization_id |-> organization_id, project_id |-> project_id,
                    chat_id |-> chat_id, prompt |-> prompt, model |-> model]
         IN  IF ~Truthy(organization_id)
             THEN Answer(ErrorResponse(400, "No active organization set"))
             ELSE IF Truthy(chat_id) THEN GoOn("send_message", ls)
             ELSE GoOn("create_chat", ls)


----------------------------------------------------------------------------
(* The actions: one request at a time, each provider call a step.          *)

NoRequest == [endpoint |-> "none", method |-> "GET"]

\* what a provider operation did: returned a value, or raised
Returned(v) == [raised |-> "", value |-> v]
Raised(exc) == [raised |-> exc, value |-> None]

CreateChatCall(ls, result) ==
    [op |-> "create_chat", organization_id |-> ls.organization_id,
     project_uuid |-> ls.project_id, result |-> result]

\* SendMessageCall with the organization read from the store again
SendMessageCallStored(ls, result) ==
    [op |-> "send_message",
     organization_id |-> config_get(store, "active_organization_id"),
     chat_id |-> ls.chat_id, prompt |-> ls.prompt, result |-> result]

SendMessageCall(ls, result) ==
    [op |-> "send_message", organization_id |-> ls.organization_id,
     chat_id |-> ls.chat_id, prompt |-> ls.prompt, result |-> result]

\* the methods of each route; OPTIONS is answered for every route
Methods(endpoint) ==
    CASE endpoint = "login" -> {"GET", "POST", "OPTIONS"}
      [] endpoint \in {"config", "test_api"} -> {"GET", "POST", "OPTIONS"}
      [] endpoint = "chat_completions" -> {"POST", "OPTIONS"}
      [] OTHER -> {"GET", "OPTIONS"}

\* request.endpoint: None when the method is not one of the route
Routed(r) == IF r.method \in Methods(r.endpoint) THEN r ELSE [r EXCEPT !.endpoint = "None"]

MethodNotAllowed == Respond(405, "html")

\* A request to /v1/chat/completions arrives: check_auth, then the handler
\* up to its first provider call.
ReceiveChat(Reqs) ==
    /\ pc = "idle"
    /\ \E r \in Reqs :
         LET auth == check_auth(Routed(r), store)
             step == IF auth.status # 0 THEN Answer(auth)
                     ELSE IF Routed(r) # r THEN Answer(MethodNotAllowed)
                     ELSE chat_prologue(r, store, provider)
         IN  /\ request' = r
             /\ calls' = <<>>
             /\ pc' = step.pc
             /\ response' = step.response
             /\ locals' = step.locals
    /\ UNCHANGED <<store, provider>>

\* create_new_chat with its result not assigned to chat_id
CreateChatUnassigned(ChatIds) ==
    /\ pc = "create_chat"
    /\ \/ \E uuid \in ChatIds :
            /\ calls' = Append(calls, CreateChatCall(locals, Returned(uuid)))
            /\ locals' = locals
            /\ pc' = "send_message"
            /\ response' = NoResponse
       \/ /\ calls' = Append(calls, CreateChatCall(locals, Raised("ProviderError")))
          /\ locals' = NoLocals
          /\ pc' = "idle"
          /\ response' = ErrorResponse(500, "ProviderError")
    /\ UNCHANGED <<store, provider, request>>

\* utils.create_new_chat: the provider creates the chat and returns its
\* uuid, or raises ProviderError.
CreateChat(ChatIds) ==
    /\ pc = "create_chat"
    /\ \/ \E uuid \in ChatIds :
            /\ calls' = Append(calls, CreateChatCall(locals, Returned(uuid)))
            /\ locals' = [locals EXCEPT !.chat_id = uuid]
            /\ pc' = "send_message"
            /\ response' = NoResponse
       \/ /\ calls' = Append(calls, CreateChatCall(locals, Raised("ProviderError")))
          /\ locals' = NoLocals
          /\ pc' = "idle"
          /\ response' = ErrorResponse(500, "ProviderError")
    /\ UNCHANGED <<store, provider, request>>

\* provider.send_message and the rest of the handler: the events are
\* accumulated, then the response is built; the call or an error event
\* raises ProviderError.
SendMessage(Streams) ==
    /\ pc = "send_message"
    /\ \/ \E events \in Streams :
            LET acc == Accumulate(events, <<>>)
            IN  /\ calls' = Append(calls, SendMessageCall(locals, Returned(events)))
                /\ response' = IF acc.raised # ""
                               THEN ErrorResponse(500, "Error in Claude.ai response")
                               ELSE openai_response(locals.chat_id, locals.model, acc.text)
       \/ /\ calls' = Append(calls, SendMessageCall(locals, Raised("ProviderError")))
          /\ response' = ErrorResponse(500, "ProviderError")
    /\ locals' = NoLocals
    /\ pc' = "idle"
    /\ UNCHANGED <<store, provider, request>>

----------------------------------------------------------------------------
(* What a provider operation does when a handler invokes it.               *)

\* an upstream HTTP 404, as handle_http_error reports it
RaisedNotFound ==
    [raised |-> "ProviderError",
     value |-> <<"API request failed with status code ", "404", ": ", "Not Found">>]

\* claude_provider is None: the attribute access raises before any
\* operation is invoked
NoProvider == Raised("AttributeError")

\* str(e)
StrOf(result) == IF result.value = None THEN <<result.raised>> ELSE result.value

\* the outcomes of an operation that returns one of Values
Results(Values) ==
    IF provider = None THEN {NoProvider}
    ELSE {Returned(v) : v \in Values} \cup {Raised("ProviderError"), RaisedNotFound}

ProviderCall(op, organization_id, result) ==
    [op |-> op, organization_id |-> organization_id, result |-> result]

\* the operations invoked so far, with this one
Invoked(cs, call) == IF call.result = NoProvider THEN cs ELSE Append(cs, call)

\* a page rendered from a template
HtmlResponse == Respond(200, "html")

\* the request is answered and the store left as st
Done(resp, st) == [pc |-> "idle", response |-> resp, locals |-> NoLocals, store |-> st]
\* the handler goes on to its next provider operation
Continue(to, ls, st) == [pc |-> to, response |-> NoResponse, locals |-> ls, store |-> st]

----------------------------------------------------------------------------
(* auth_routes.py: index, login, check_login, config_page.                 *)

\* the session key lives 24 hours
SessionHours == 24

\* request.form.get(name)
FormGet(r, name) == IF name \in DOMAIN r.form THEN r.form[name] ELSE None

index(r, st) == Done(HtmlResponse, st)

\* login up to get_organizations (the key file is taken to be written)
login(r, st) ==
    IF r.method = "OPTIONS" THEN Done(Respond(204, ""), st)
    ELSE IF r.method = "GET" THEN Done(HtmlResponse, st)
    ELSE LET session_key == FormGet(r, "session_key")
         IN  IF ~Truthy(session_key)
             THEN Done(ErrorResponse(400, "No session key provided"), st)
             ELSE Continue("login_verify", NoLocals,
                           set_session_key(st, session_key, r.at + SessionHours))

\* login_verify with the inner handler left out: the failure of
\* get_organizations falls to the outer one
login_verify_unexpected(result, st) ==
    IF result.raised # ""
    THEN Done(ErrorResponse(500, <<"Unexpected error during login: ">> \o StrOf(result)), st)
    ELSE LET organizations == result.value
         IN  IF organizations # <<>>
             THEN LET active_org == organizations[1]
                  IN  Done(Respond(200, [message |-> "Successfully logged in to Claude.ai",
                                         organizations_count |-> Len(organizations),
                                         active_organization |-> active_org.name]),
                           config_set(st, "active_organization_id", active_org.id))
             ELSE Done(ErrorResponse(401, "Login failed: Unable to retrieve organizations"), st)

\* login_verify that keeps an active organization already stored
login_verify_keep_active(result, st) ==
    IF result.raised # ""
    THEN Done(ErrorResponse(401, <<"Login failed: ">> \o StrOf(result)), st)
    ELSE LET organizations == result.value
         IN  IF organizations # <<>>
             THEN LET active_org == organizations[1]
                  IN  Done(Respond(200, [message |-> "Successfully logged in to Claude.ai",
                                         organizations_count |-> Len(organizations),
                                         active_organization |-> active_org.name]),
                           IF Truthy(config_get(st, "active_organization_id")) THEN st
                           ELSE config_set(st, "active_organization_id", active_org.id))
             ELSE Done(ErrorResponse(401, "Login failed: Unable to retrieve organizations"), st)

\* login_verify that forgets the key it could not verify
login_verify_forget(result, st) ==
    IF result.raised # ""
    THEN Done(ErrorResponse(401, <<"Login failed: ">> \o StrOf(result)),
              set_session_key(st, None, None))
    ELSE LET organizations == result.value
         IN  IF organizations # <<>>
             THEN LET active_org == organizations[1]
                  IN  Done(Respond(200, [message |-> "Successfully logged in to Claude.ai",
                                         organizations_count |-> Len(organizations),
                                         active_organization |-> active_org.name]),
                           config_set(st, "active_organization_id", active_org.id))
             ELSE Done(ErrorResponse(401, "Login failed: Unable to retrieve organizations"),
                       set_session_key(st, None, None))

\* login from the answer of get_organizations on
login_verify(result, st) ==
    IF result.raised # ""
    THEN Done(ErrorResponse(401, <<"Login failed: ">> \o StrOf(result)), st)
    ELSE LET organizations == result.value
         IN  IF organizations # <<>>
             THEN LET active_org == organizations[1]
                  IN  Done(Respond(200, [message |-> "Successfully logged in to Claude.ai",
                                         organizations_count |-> Len(organizations),
                                         active_organization |-> active_org.name]),
                           config_set(st, "active_organization_id", active_org.id))
             ELSE Done(ErrorResponse(401, "Login failed: Unable to retrieve organizations"), st)

\* check_login up to get_organizations
check_login(r, st) ==
    IF ~Truthy(get_session_key(st)[1])
    THEN Done(Respond(401, [status |-> "Not logged in"]), st)
    ELSE Continue("check_login_verify", NoLocals, st)

\* the organizations with the id, in the order of the list
WithId(organizations, id) ==
    {k \in 1..Len(organizations) : organizations[k].id = id}

\* check_login_verify that makes the first organization the active one
\* as login does
check_login_verify_first(result, st) ==
    IF result.raised # ""
    THEN Done(Respond(500, [status |-> "Error", message |-> StrOf(result)]), st)
    ELSE LET organizations == result.value
         IN  IF organizations = <<>>
             THEN Done(Respond(500, [status |-> "Error",
                                     message |-> "Unable to verify login status"]), st)
             ELSE Done(Respond(200, [status |-> "Logged in",
                                     organizations_count |-> Len(organizations),
                                     active_organization |-> organizations[1].name]),
                       config_set(st, "active_organization_id", organizations[1].id))

\* check_login from the answer of get_organizations on
check_login_verify(result, st) ==
    IF result.raised # ""
    THEN Done(Respond(500, [status |-> "Error", message |-> StrOf(result)]), st)
    ELSE LET organizations == result.value
             active_org_id == config_get(st, "active_organization_id")
             found == WithId(organizations, active_org_id)
             logged_in(active_org) ==
                 Respond(200, [status |-> "Logged in",
                               organizations_count |-> Len(organizations),
                               active_organization |-> active_org.name])
         IN  IF organizations = <<>>
             THEN Done(Respond(500, [status |-> "Error",
                                     message |-> "Unable to verify login status"]), st)
             ELSE IF ~Truthy(active_org_id) \/ found = {}
             THEN Done(logged_in(organizations[1]),
                       config_set(st, "active_organization_id", organizations[1].id))
             ELSE Done(logged_in(organizations[Min(found)]), st)

\* config_page that forgets the active organization with the old key
config_page_reset(r, st) ==
    IF r.method = "POST"
    THEN LET new_cookie == FormGet(r, "cookie")
         IN  IF Truthy(new_cookie)
             THEN Done(Respond(200, [message |-> "Cookie updated successfully"]),
                       config_set(set_session_key(st, new_cookie, r.at + SessionHours),
                                  "active_organization_id", None))
             ELSE Done(ErrorResponse(400, "No cookie provided"), st)
    ELSE Done(HtmlResponse, st)

\* config: the page on GET, the new cookie stored on POST
config_page(r, st) ==
    IF r.method = "POST"
    THEN LET new_cookie == FormGet(r, "cookie")
         IN  IF Truthy(new_cookie)
             THEN Done(Respond(200, [message |-> "Cookie updated successfully"]),
                       set_session_key(st, new_cookie, r.at + SessionHours))
             ELSE Done(ErrorResponse(400, "No cookie provided"), st)
    ELSE Done(HtmlResponse, st)

----------------------------------------------------------------------------
(* api_routes.py: list_models and the listing endpoints.                   *)

list_models(r, st) ==
    Done(Respond(200, [object |-> "list", data |-> <<"claude-3.5-sonnet", "claude-2">>]), st)

\* list_chats up to get_chat_conversations
list_chats(r, st) ==
    LET organization_id == config_get(st, "active_organization_id")
    IN  IF ~Truthy(organization_id)
        THEN Done(ErrorResponse(400, "No active organization set"), st)
        ELSE Continue("list_chats_get", [NoLocals EXCEPT !.organization_id = organization_id], st)

\* list_chats_get that asks again when get_chat_conversations fails
list_chats_get_retry(result, ls, st) ==
    IF result.raised # "" THEN Continue("list_chats_again", ls, st)
    ELSE IF result.value = <<>> THEN Continue("list_chats_create", ls, st)
    ELSE Done(Respond(200, result.value), st)

\* from the answer of get_chat_conversations on
list_chats_get(result, ls, st) ==
    IF result.raised # ""
    THEN Done(ErrorResponse(500, <<"Error listing chats: ">> \o StrOf(result)), st)
    ELSE IF result.value = <<>> THEN Continue("list_chats_create", ls, st)
    ELSE Done(Respond(200, result.value), st)

\* from the answer of create_new_chat(organization_id, None) on
list_chats_create(result, ls, st) ==
    IF result.raised # ""
    THEN Done(ErrorResponse(500, <<"Error listing chats: ">> \o StrOf(result)), st)
    ELSE Continue("list_chats_again", ls, st)

\* from the answer of the second get_chat_conversations on
list_chats_again(result, ls, st) ==
    IF result.raised # ""
    THEN Done(ErrorResponse(500, <<"Error listing chats: ">> \o StrOf(result)), st)
    ELSE Done(Respond(200, result.value), st)

\* '"404" in str(e)' in the handler of ProviderError
NotFound(result) ==
    /\ result.raised = "ProviderError"
    /\ result.value # None
    /\ \E k \in 1..Len(result.value) : result.value[k] = "404"

\* the outer handlers of list_projects: ProviderError, then Exception
list_projects_error(result) ==
    IF result.raised = "ProviderError"
    THEN ErrorResponse(500, <<"Error listing projects: ">> \o StrOf(result))
    ELSE ErrorResponse(500, <<"Unexpected error listing projects: ">> \o StrOf(result))

\* list_projects up to get_organizations
list_projects(r, st) ==
    LET session_key == get_session_key(st)[1]
        organization_id == config_get(st, "active_organization_id")
    IN  IF ~Truthy(session_key)
        THEN Done(ErrorResponse(401, "Not authenticated. Please log in first."), st)
        ELSE IF ~Truthy(organization_id)
        THEN Done(ErrorResponse(400, "No active organization set"), st)
        ELSE Continue("list_projects_verify",
                      [NoLocals EXCEPT !.organization_id = organization_id], st)

\* from the answer of get_organizations on
list_projects_verify(result, ls, st) ==
    IF result.raised # ""
    THEN Done(ErrorResponse(401, <<"Failed to verify session key: ">> \o StrOf(result)), st)
    ELSE Continue("list_projects_get", ls, st)

\* list_projects_get that returns the list as given, empty or not
list_projects_get_as_given(result, ls, st) ==
    IF NotFound(result) THEN Continue("list_projects_create_404", ls, st)
    ELSE IF result.raised # "" THEN Done(list_projects_error(result), st)
    ELSE Done(Respond(200, result.value), st)

\* from the answer of get_projects on
list_projects_get(result, ls, st) ==
    IF NotFound(result) THEN Continue("list_projects_create_404", ls, st)
    ELSE IF result.raised # "" THEN Done(list_projects_error(result), st)
    ELSE IF result.value = <<>> THEN Continue("list_projects_create", ls, st)
    ELSE Done(Respond(200, result.value), st)

\* list_projects_create that makes the created project the active one
list_projects_create_activate(result, ls, st) ==
    IF NotFound(result) THEN Continue("list_projects_create_404", ls, st)
    ELSE IF result.raised # "" THEN Done(list_projects_error(result), st)
    ELSE Done(Respond(200, <<result.value>>),
              config_set(st, "active_project_id", result.value.id))

\* from the answer of create_default_project, called for an empty list
\* inside the try, on
list_projects_create(result, ls, st) ==
    IF NotFound(result) THEN Continue("list_projects_create_404", ls, st)
    ELSE IF result.raised # "" THEN Done(list_projects_error(result), st)
    ELSE Done(Respond(200, <<result.value>>), st)

\* from the answer of create_default_project, called in the handler of
\* the 404, on
list_projects_create_404(result, ls, st) ==
    IF result.raised # "" THEN Done(list_projects_error(result), st)
    ELSE Done(Respond(200, <<result.value>>), st)

\* list_organizations from the answer of get_organizations on
list_organizations_get(result, ls, st) ==
    IF result.raised # ""
    THEN Done(ErrorResponse(500, <<"Error listing organizations: ">> \o StrOf(result)), st)
    ELSE Done(Respond(200, result.value), st)

----------------------------------------------------------------------------
(* api_routes.py: test_api.                                                *)

\* the fixed prompt of the test, its accents left out
TestPrompt == <<"Rodrigo e o maior, Rodrigo Coelho e demais, quem e o maioral?">>

\* the handler of Exception around the whole of test_api
test_api_error(result) ==
    ErrorResponse(500, <<"Unexpected error during API test: ">> \o StrOf(result))

\* test_api up to get_projects
test_api(r, st) ==
    IF r.method = "GET" THEN Done(HtmlResponse, st)
    ELSE LET organization_id == config_get(st, "active_organization_id")
         IN  IF ~Truthy(organization_id)
             THEN Done(ErrorResponse(400, "No active organization set"), st)
             ELSE Continue("test_api_get_projects",
                           [NoLocals EXCEPT !.organization_id = organization_id], st)

\* from the answer of get_projects on
test_api_get_projects(result, ls, st) ==
    IF NotFound(result) THEN Continue("test_api_create_404", ls, st)
    ELSE IF result.raised # "" THEN Done(test_api_error(result), st)
    ELSE IF result.value = <<>> THEN Continue("test_api_create", ls, st)
    ELSE Continue("test_api_create_chat", [ls EXCEPT !.project_id = result.value[1].id], st)

\* from the answer of create_default_project, called for an empty list, on
test_api_create(result, ls, st) ==
    IF NotFound(result) THEN Continue("test_api_create_404", ls, st)
    ELSE IF result.raised # "" THEN Done(test_api_error(result), st)
    ELSE Continue("test_api_create_chat", [ls EXCEPT !.project_id = result.value.id], st)

\* from the answer of create_default_project, called in the handler of
\* the 404, on
test_api_create_404(result, ls, st) ==
    IF result.raised # "" THEN Done(test_api_error(result), st)
    ELSE Continue("test_api_create_chat", [ls EXCEPT !.project_id = result.value.id], st)

\* from the answer of create_new_chat on
test_api_create_chat(result, ls, st) ==
    IF result.raised # ""
    THEN Done(ErrorResponse(500, <<"Error creating new chat: ">> \o StrOf(result)), st)
    ELSE Continue("test_api_send",
                  [ls EXCEPT !.chat_id = result.value, !.prompt = TestPrompt], st)

\* 'key in event' on a str is a test for a substring
HasWord(text, word) == \E k \in 1..Len(text) : text[k] = word

\* The loop of test_api over the events: no isinstance here, so a str with
\* one of the words in it is indexed with a str and raises TypeError.
RECURSIVE TestAccumulate(_, _)
TestAccumulate(events, response_content) ==
    IF events = <<>> THEN [raised |-> "", text |-> response_content]
    ELSE LET event == Head(events)
         IN  IF event[1] # "dict"
             THEN IF \E w \in {"completion", "content", "error"} : HasWord(event[2], w)
                  THEN [raised |-> "TypeError", text |-> response_content]
                  ELSE TestAccumulate(Tail(events), response_content)
             ELSE IF "completion" \in DOMAIN event[2]
             THEN TestAccumulate(Tail(events), response_content \o event[2].completion)
             ELSE IF "content" \in DOMAIN event[2]
             THEN TestAccumulate(Tail(events), response_content \o event[2].content)
             ELSE IF "error" \in DOMAIN event[2]
             THEN [raised |-> "ProviderError", text |-> response_content]
             ELSE TestAccumulate(Tail(events), response_content)

\* from the answer of send_message on
test_api_send(result, ls, st) ==
    IF result.raised # ""
    THEN Done(ErrorResponse(500, <<"Error sending message to Claude.ai: ">> \o StrOf(result)), st)
    ELSE LET acc == TestAccumulate(result.value, <<>>)
         IN  IF acc.raised # ""
             THEN Done(ErrorResponse(500, <<"Error sending message to Claude.ai: ", acc.raised>>), st)
             ELSE Done(Respond(200, [response |-> acc.text]), st)

----------------------------------------------------------------------------
(* The actions of the other endpoints: the arrival of a request runs       *)
(* check_auth and the handler up to its first provider operation; each     *)
(* provider operation is a step.                                           *)

\* r arrives; step is what its handler does with it
Arrive(r, step) ==
    /\ LET auth == check_auth(Routed(r), store)
           do == IF auth.status # 0 THEN Done(auth, store)
                 ELSE IF Routed(r) # r THEN Done(MethodNotAllowed, store)
                 ELSE step
       IN  /\ request' = r
           /\ calls' = <<>>
           /\ pc' = do.pc
           /\ response' = do.response
           /\ locals' = do.locals
           /\ store' = do.store
    /\ UNCHANGED provider

\* a provider operation was invoked; step is what the handler does with
\* its answer
Proceed(call, step) ==
    /\ calls' = Invoked(calls, call)
    /\ pc' = step.pc
    /\ response' = step.response
    /\ locals' = step.locals
    /\ store' = step.store
    /\ UNCHANGED <<provider, request>>

To(Reqs, endpoint) == {r \in Reqs : r.endpoint = endpoint}

GetOrganizationsCall(result) == ProviderCall("get_organizations", None, result)
GetChatsCall(ls, result) == ProviderCall("get_chat_conversations", ls.organization_id, result)
GetProjectsCall(ls, result) == ProviderCall("get_projects", ls.organization_id, result)
CreateProjectCall(ls, result) == ProviderCall("create_project", ls.organization_id, result)

Index(Reqs) ==
    /\ pc = "idle"
    /\ \E r \in To(Reqs, "index") : Arrive(r, index(r, store))

Login(Reqs) ==
    /\ pc = "idle"
    /\ \E r \in To(Reqs, "login") : Arrive(r, login(r, store))

LoginVerify(OrgLists) ==
    /\ pc = "login_verify"
    /\ \E result \in Results(OrgLists) :
          Proceed(GetOrganizationsCall(result), login_verify(result, store))

CheckLogin(Reqs) ==
    /\ pc = "idle"
    /\ \E r \in To(Reqs, "check_login") : Arrive(r, check_login(r, store))

CheckLoginVerify(OrgLists) ==
    /\ pc = "check_login_verify"
    /\ \E result \in Results(OrgLists) :
          Proceed(GetOrganizationsCall(result), check_login_verify(result, store))

ConfigPage(Reqs) ==
    /\ pc = "idle"
    /\ \E r \in To(Reqs, "config") : Arrive(r, config_page(r, store))

ListModels(Reqs) ==
    /\ pc = "idle"
    /\ \E r \in To(Reqs, "list_models") : Arrive(r, list_models(r, store))

ListChats(Reqs) ==
    /\ pc = "idle"
    /\ \E r \in To(Reqs, "list_chats") : Arrive(r, list_chats(r, store))

ListChatsGet(ChatLists) ==
    /\ pc = "list_chats_get"
    /\ \E result \in Results(ChatLists) :
          Proceed(GetChatsCall(locals, result), list_chats_get(result, locals, store))

ListChatsCreate(ChatIds) ==
    /\ pc = "list_chats_create"
    /\ \E result \in Results(ChatIds) :
          Proceed(CreateChatCall(locals, result), list_chats_create(result, locals, store))

ListChatsAgain(ChatLists) ==
    /\ pc = "list_chats_again"
    /\ \E result \in Results(ChatLists) :
          Proceed(GetChatsCall(locals, result), list_chats_again(result, locals, store))

ListProjects(Reqs) ==
    /\ pc = "idle"
    /\ \E r \in To(Reqs, "list_projects") : Arrive(r, list_projects(r, store))

ListProjectsVerify(OrgLists) ==
    /\ pc = "list_projects_verify"
    /\ \E result \in Results(OrgLists) :
          Proceed(GetOrganizationsCall(result), list_projects_verify(result, locals, store))

ListProjectsGet(ProjectLists) ==
    /\ pc = "list_projects_get"
    /\ \E result \in Results(ProjectLists) :
          Proceed(GetProjectsCall(locals, result), list_projects_get(result, locals, store))

ListProjectsCreate(Projects) ==
    /\ pc = "list_projects_create"
    /\ \E result \in Results(Projects) :
          Proceed(CreateProjectCall(locals, result), list_projects_create(result, locals, store))

ListProjectsCreate404(Projects) ==
    /\ pc = "list_projects_create_404"
    /\ \E result \in Results(Projects) :
          Proceed(CreateProjectCall(locals, result), list_projects_create_404(result, locals, store))

\* list_organizations has nothing before its provider operation
ListOrganizations(Reqs) ==
    /\ pc = "idle"
    /\ \E r \in To(Reqs, "list_organizations") :
          Arrive(r, Continue("list_organizations_get", NoLocals, store))

ListOrganizationsGet(OrgLists) ==
    /\ pc = "list_organizations_get"
    /\ \E result \in Results(OrgLists) :
          Proceed(GetOrganizationsCall(result), list_organizations_get(result, locals, store))

TestApi(Reqs) ==
    /\ pc = "idle"
    /\ \E r \in To(Reqs, "test_api") : Arrive(r, test_api(r, store))

TestApiGetProjects(ProjectLists) ==
    /\ pc = "test_api_get_projects"
    /\ \E result \in Results(ProjectLists) :
          Proceed(GetProjectsCall(locals, result), test_api_get_projects(result, locals, store))

TestApiCreate(Projects) ==
    /\ pc = "test_api_create"
    /\ \E result \in Results(Projects) :
          Proceed(CreateProjectCall(locals, result), test_api_create(result, locals, store))

TestApiCreate404(Projects) ==
    /\ pc = "test_api_create_404"
    /\ \E result \in Results(Projects) :
          Proceed(CreateProjectCall(locals, result), test_api_create_404(result, locals, store))

TestApiCreateChat(ChatIds) ==
    /\ pc = "test_api_create_chat"
    /\ \E result \in Results(ChatIds) :
          Proceed(CreateChatCall(locals, result), test_api_create_chat(result, locals, store))

TestApiSend(Streams) ==
    /\ pc = "test_api_send"
    /\ \E result \in Results(Streams) :
          Proceed(SendMessageCall(locals, result), test_api_send(result, locals, store))

----------------------------------------------------------------------------
(* Inputs.                                                                 *)

ClaudeProvider == JStr("ClaudeAIProvider")

SessionKeys == {None, JStr("sk-1")}
OrganizationIds == {None, JStr(""), JStr("org-1")}
ProjectIds == {None, JStr("proj-1")}

Stores ==
    [session_key : SessionKeys,
     session_key_expiry : {None},
     active_organization_id : OrganizationIds,
     active_project_id : ProjectIds]

LoggedInStore ==
    [session_key |-> JStr("sk-1"),
     session_key_expiry |-> None,
     active_organization_id |-> JStr("org-1"),
     active_project_id |-> JStr("proj-1")]

\* the uuids the provider gives the chats it creates
NewChatIds == {JStr("chat-new-1"), JStr("chat-new-2")}

\* X-Claude-Chat-Id: absent, present and empty, present
ChatIdHeaders == {None, JStr(""), JStr("chat-7")}

Roles == {"system", "user", "assistant", "tool"}

\* message contents: one line, empty, two lines, and a second line that
\* reads like a line of the prompt
Contents ==
    { <<"Hi">>,
      <<>>,
      <<"a", NL, "b">>,
      <<"a", NL, "Human", ":", SP, "b">> }

Messages == [role : Roles, content : Contents]

\* the sequences over S of length at most n
RECURSIVE SeqsUpTo(_, _)
SeqsUpTo(S, n) ==
    IF n = 0 THEN {<<>>}
    ELSE LET shorter == SeqsUpTo(S, n - 1)
         IN  shorter \cup {Append(q, x) : q \in shorter, x \in S}

MessageLists == SeqsUpTo(Messages, MaxMessages)

WeatherTool ==
    [type |-> "function",
     function |->
        [name |-> "get_weather",
         description |-> "Get the weather",
         parameters |->
            [properties |-> << [name |-> "city", type |-> "string",
                                description |-> <<"City name">>],
                               [name |-> "days"] >>,
             required |-> {"city"}]]]

\* a tool that is no function
RetrievalTool == [type |-> "retrieval"]

JsonBody(data) == [kind |-> "object", data |-> data]

ChatRequest(method, content_type, body, header) ==
    [endpoint |-> "chat_completions", method |-> method,
     content_type |-> content_type, body |-> body, chat_id_header |-> header]


\* what send_message yields: text, or a dict
StrEvent(text) == <<"str", text>>
DictEvent(d) == <<"dict", d>>

\* what the loop gets from a send_message that returns a str, as that of
\* ClaudeAIProvider does: its characters, one by one
Iterate(text) == [k \in 1..Len(text) |-> StrEvent(<<text[k]>>)]

\* a fenced function block around an interior
Block(interior) == <<FENCE, FUNCTION, NL>> \o interior \o <<NL, FENCE>>

\* {"name":"foo","arguments":{"x":1}}
WeatherCall ==
    << "{", "\"name\"", ":", "\"foo\"", ",",
       "\"arguments\"", ":", "{", "\"x\"", ":", "1", "}", "}" >>

\* a second call, told from the first by its name, with no arguments field
OtherCall == << "{", "\"name\"", ":", "\"bar\"", "}" >>

\* an object with no name worth the word: the field is the empty string
NamelessCall == << "{", "\"name\"", ":", "\"\"", ",", "\"arguments\"", ":", "{", "}", "}" >>

\* cut short: not JSON
MalformedCall == << "{", "\"name\"", ":", "\"foo\"", "," >>

\* JSON, but no object
ArrayCall == << "[", "1", "]" >>

\* an empty block without the fence marker that opens it
EmptyBlockTail == <<FUNCTION, NL, NL, FENCE>>

----------------------------------------------------------------------------
(* Spec: the server, with every kind of request and of provider answer.    *)

Bodies ==
    { [kind |-> "invalid"],
      [kind |-> "null"],
      JsonBody([messages |-> <<[role |-> "user", content |-> <<"Hi">>]>>]),
      JsonBody([model |-> "claude-2",
                messages |-> << [role |-> "system", content |-> <<"You are a helpful assistant.">>],
                                [role |-> "user", content |-> <<"What is the capital of France?">>] >>,
                max_tokens |-> 150]),
      JsonBody([tools |-> <<WeatherTool>>,
                messages |-> <<[role |-> "user", content |-> <<"Hi">>]>>]),
      JsonBody([model |-> "claude-2"]) }

Requests ==
    {ChatRequest("POST", "application/json", b, h) : b \in Bodies, h \in ChatIdHeaders}
    \cup {ChatRequest("POST", "text/plain", b, None) : b \in Bodies}
    \cup {ChatRequest("OPTIONS", "", [kind |-> "invalid"], None)}

EventStreams ==
    { <<>>,
      <<StrEvent(<<"Hello", SP, "there">>)>>,
      <<StrEvent(<<"Hello">>), DictEvent([completion |-> <<SP>>]), DictEvent([content |-> <<"there">>])>>,
      <<DictEvent([content |-> <<"no">>, completion |-> <<"yes">>]), DictEvent([type |-> "ping"])>>,
      <<StrEvent(<<"Hello">>), DictEvent([error |-> "overloaded"]), StrEvent(<<"there">>)>>,
      <<StrEvent(<<"Sure.", NL>>), StrEvent(Block(WeatherCall)), StrEvent(<<NL, "Done.">>)>>,
      <<StrEvent(<<FENCE, FUNCTION>>), StrEvent(<<NL>> \o OtherCall \o <<NL, FENCE>>)>>,
      <<StrEvent(Block(NamelessCall))>>,
      <<StrEvent(Block(MalformedCall) \o <<NL>>)>>,
      <<StrEvent(Block(ArrayCall))>>,
      Iterate(<<"Hello", SP, "there">>) }

Init ==
    /\ store \in Stores
    /\ provider \in {ClaudeProvider, None}
    /\ pc = "idle"
    /\ request = NoRequest
    /\ locals = NoLocals
    /\ calls = <<>>
    /\ response = NoResponse

Next ==
    \/ ReceiveChat(Requests)
    \/ CreateChat(NewChatIds)
    \/ SendMessage(EventStreams)

Spec == Init /\ [][Next]_vars

----------------------------------------------------------------------------
(* SpecServer: every endpoint, one request after the other, so that what   *)
(* a request writes to the store is what the next ones read.               *)

\* the hours at which requests arrive
Times == 0..MaxTime

Organization(id, name) == [id |-> JStr(id), name |-> name]
OrgLists ==
    { <<>>,
      <<Organization("org-1", "One")>>,
      <<Organization("org-2", "Two"), Organization("org-1", "One")>> }

ChatLists == {<<>>, <<[uuid |-> JStr("chat-7"), name |-> "old"]>>}

Project(id) == [id |-> JStr(id), name |-> "Default ClaudeSync Project"]
ProjectLists == {<<>>, <<Project("proj-1")>>}
NewProjects == {Project("proj-new")}

TestStreams ==
    { <<>>,
      <<DictEvent([completion |-> <<"Paris">>]), DictEvent([content |-> <<".">>])>>,
      <<DictEvent([error |-> "overloaded"])>>,
      <<StrEvent(<<"no", SP, "content">>)>> }

PlainRequest(endpoint, method) == [endpoint |-> endpoint, method |-> method]
FormRequest(endpoint, form, at) ==
    [endpoint |-> endpoint, method |-> "POST", form |-> form, at |-> at]

NoForm == <<>>
LoginForms == {NoForm, [session_key |-> JStr("")], [session_key |-> JStr("sk-2")]}
ConfigForms == {NoForm, [cookie |-> JStr("")], [cookie |-> JStr("sk-3")]}

Endpoints ==
    {"index", "login", "check_login", "config", "list_models", "list_chats",
     "list_projects", "list_organizations", "test_api"}

ServerRequests ==
    {PlainRequest(e, m) : e \in Endpoints, m \in {"GET", "OPTIONS"}}
    \cup {PlainRequest(e, "POST") : e \in Endpoints \ {"login", "config"}}
    \cup {FormRequest("login", f, t) : f \in LoginForms, t \in Times}
    \cup {FormRequest("config", f, t) : f \in ConfigForms, t \in Times}

ServerChatRequests ==
    {ChatRequest("POST", "application/json", b, h) :
        b \in {[kind |-> "invalid"],
               JsonBody([messages |-> <<[role |-> "user", content |-> <<"Hi">>]>>]),
               JsonBody([model |-> "claude-2"])},
        h \in {None, JStr("chat-7")}}
    \cup {ChatRequest("POST", "text/plain", [kind |-> "invalid"], None),
          ChatRequest("OPTIONS", "", [kind |-> "invalid"], None),
          ChatRequest("GET", "", [kind |-> "invalid"], None)}

ServerStreams ==
    { <<StrEvent(<<"Hello", SP, "there">>)>>,
      <<StrEvent(<<"Hello">>), DictEvent([error |-> "overloaded"])>> }

NextServer ==
    \/ ReceiveChat(ServerChatRequests)
    \/ CreateChat(NewChatIds)
    \/ SendMessage(ServerStreams)
    \/ Index(ServerRequests)
    \/ Login(ServerRequests)
    \/ LoginVerify(OrgLists)
    \/ CheckLogin(ServerRequests)
    \/ CheckLoginVerify(OrgLists)
    \/ ConfigPage(ServerRequests)
    \/ ListModels(ServerRequests)
    \/ ListChats(ServerRequests)
    \/ ListChatsGet(ChatLists)
    \/ ListChatsCreate(NewChatIds)
    \/ ListChatsAgain(ChatLists)
    \/ ListProjects(ServerRequests)
    \/ ListProjectsVerify(OrgLists)
    \/ ListProjectsGet(ProjectLists)
    \/ ListProjectsCreate(NewProjects)
    \/ ListProjectsCreate404(NewProjects)
    \/ ListOrganizations(ServerRequests)
    \/ ListOrganizationsGet(OrgLists)
    \/ TestApi(ServerRequests)
    \/ TestApiGetProjects(ProjectLists)
    \/ TestApiCreate(NewProjects)
    \/ TestApiCreate404(NewProjects)
    \/ TestApiCreateChat(NewChatIds)
    \/ TestApiSend(TestStreams)

SpecServer == Init /\ [][NextServer]_vars

----------------------------------------------------------------------------
(* SpecPrompt: the prompt of every message list within the bound, for a    *)
(* logged-in store.                                                        *)

PromptBodies ==
    {JsonBody([messages |-> ms]) : ms \in MessageLists}
    \cup {JsonBody([tools |-> ts, messages |-> ms]) :
              ts \in {<<>>, <<WeatherTool>>, <<RetrievalTool>>}, ms \in MessageLists}

PromptRequests ==
    {ChatRequest("POST", "application/json", b, JStr("chat-7")) : b \in PromptBodies}
    \cup {ChatRequest("POST", "application/json",
                      JsonBody([messages |-> <<[role |-> "user", content |-> <<"Hi">>]>>]), None)}

InitLoggedIn ==
    /\ store = LoggedInStore
    /\ provider = ClaudeProvider
    /\ pc = "idle"
    /\ request = NoRequest
    /\ locals = NoLocals
    /\ calls = <<>>
    /\ response = NoResponse

\* one request is served
NextPrompt ==
    \/ request = NoRequest /\ ReceiveChat(PromptRequests)
    \/ CreateChat(NewChatIds)
    \/ SendMessage({<<StrEvent(<<"Hello", SP, "there">>)>>})

SpecPrompt == InitLoggedIn /\ [][NextPrompt]_vars

----------------------------------------------------------------------------
(* SpecCompletion: the response to every completion made of at most        *)
(* MaxPieces pieces, for a logged-in store and one request on an existing  *)
(* chat.                                                                   *)

Pieces ==
    { <<"Hello">>,
      <<NL>>,
      <<FENCE>>,
      <<FUNCTION, NL>>,
      <<NL, FENCE>>,
      EmptyBlockTail,
      Block(WeatherCall),
      Block(OtherCall),
      Block(NamelessCall),
      Block(MalformedCall),
      Block(ArrayCall) }

Completions == {Flatten(ps) : ps \in SeqsUpTo(Pieces, MaxPieces)}

CompletionRequest ==
    ChatRequest("POST", "application/json",
                JsonBody([tools |-> <<WeatherTool>>,
                          messages |-> <<[role |-> "user", content |-> <<"Hi">>]>>]),
                JStr("chat-7"))

\* one request is served
NextCompletion ==
    \/ request = NoRequest /\ ReceiveChat({CompletionRequest})
    \/ SendMessage({<<StrEvent(t)>> : t \in Completions})

SpecCompletion == InitLoggedIn /\ [][NextCompletion]_vars


----------------------------------------------------------------------------
(* The prompt, read back line by line.                                     *)

RoleLabels == {"System", "Human", "Assistant"}
RecognizedRoles == {"system", "user", "assistant"}

LabelOf(role) ==
    CASE role = "system" -> "System"
      [] role = "user" -> "Human"
      [] role = "assistant" -> "Assistant"

\* a line of text t starts at i with a role label, a colon and a space
LabelledLineAt(t, i) ==
    /\ i = 1 \/ t[i - 1] = NL
    /\ i + 2 <= Len(t)
    /\ t[i] \in RoleLabels
    /\ t[i + 1] = ":"
    /\ t[i + 2] = SP

LabelledLines(t) == {i \in 1..Len(t) : LabelledLineAt(t, i)}

\* the n-th element of a set of numbers, counted from the least
Nth(S, n) == CHOOSE x \in S : Cardinality({y \in S : y < x}) = n - 1

\* The role-labelled lines of prompt, after the first `lead` of them, are
\* one per message, in order, each with the label of its message's role and
\* reaching, with the blank line that ends it, to the next labelled line.
ReadsAs(prompt, lead, messages) ==
    LET starts == LabelledLines(prompt)
        n == Cardinality(starts)
    IN  /\ n = lead + Len(messages)
        /\ \A i \in 1..Len(messages) :
             LET from == Nth(starts, lead + i)
                 to == IF lead + i < n THEN Nth(starts, lead + i + 1) - 1 ELSE Len(prompt)
             IN  /\ prompt[from] = LabelOf(messages[i].role)
                 /\ SubSeq(prompt, from + 3, to) = messages[i].content \o <<NL, NL>>

\* no line of the content after its first begins with a role label
NoLabelledLineIn(content) == \A j \in 2..Len(content) : ~LabelledLineAt(content, j)

\* the handler has built its prompt and is about to call the provider
PromptBuilt == pc \in {"create_chat", "send_message"}

RequestMessages == Get(request.body.data, "messages", <<>>)
RequestTools == Get(request.body.data, "tools", <<>>)
AllRecognized(messages) == \A i \in 1..Len(messages) : messages[i].role \in RecognizedRoles
Recognized(m) == m.role \in RecognizedRoles

\* the tools preamble is one more System line at the head of the prompt
LeadLines == IF RequestTools = <<>> THEN 0 ELSE 1

\* C1 as stated: for every message list whose roles are all recognized, the
\* prompt holds exactly one role-labelled line per message, in input order,
\* with the mapped label and the content unchanged.
C1_OneLabelledLinePerMessage ==
    (PromptBuilt /\ AllRecognized(RequestMessages))
        => ReadsAs(locals.prompt, LeadLines, RequestMessages)

\* C1 amended: the same, for message lists in which no content has a line
\* of its own that begins with a role label.
C1_OneLabelledLinePerPlainMessage ==
    (/\ PromptBuilt
     /\ AllRecognized(RequestMessages)
     /\ \A i \in 1..Len(RequestMessages) : NoLabelledLineIn(RequestMessages[i].content))
        => ReadsAs(locals.prompt, LeadLines, RequestMessages)

\* C1 witness: a prompt built from two recognized messages of different
\* roles, one of them of two lines, behind the tools preamble.
C1_Witness ==
    /\ pc = "send_message"
    /\ RequestTools # <<>>
    /\ Len(RequestMessages) = 2
    /\ RequestMessages[1].role = "assistant"
    /\ RequestMessages[2].role = "system"
    /\ RequestMessages[1].content = <<"a", NL, "b">>
    /\ ReadsAs(locals.prompt, 1, RequestMessages)

\* C2: a message with a role outside {system, user, assistant} adds no line
\* and no error: the request goes on to the provider, with the prompt of the
\* same list without those messages.
C2_UnrecognizedRolesDropped ==
    /\ PromptBuilt =>
         locals.prompt =
             BuildPrompt(claude_messages(RequestTools, SelectSeq(RequestMessages, Recognized)))
    /\ (pc = "idle" /\ request.endpoint = "chat_completions") => calls # <<>>

\* C2 witness: a prompt built from a list that begins with a message of
\* role tool and goes on with a user message.
C2_Witness ==
    /\ pc = "send_message"
    /\ Len(RequestMessages) = 2
    /\ RequestMessages[1].role = "tool"
    /\ RequestMessages[1].content = <<"Hi">>
    /\ RequestMessages[2].role = "user"
    /\ locals.prompt = <<"Human", ":", SP>> \o RequestMessages[2].content \o <<NL, NL>>


----------------------------------------------------------------------------
(* The completion and its fenced blocks, stated apart from the code.       *)

Last(q) == q[Len(q)]

\* the request was answered after send_message returned its events
Answered ==
    /\ pc = "idle"
    /\ request.endpoint = "chat_completions"
    /\ calls # <<>>
    /\ Last(calls).op = "send_message"
    /\ Last(calls).result.raised = ""

\* the completion, when send_message delivered it as one piece of text
CompletionText == Last(calls).result.value[1][2]

Choices == response.body.choices
Message == Choices[1].message
HasFunctionCall == response.status = 200 /\ "function_call" \in DOMAIN Message

RECURSIVE DropLeading(_)
DropLeading(t) ==
    IF t # <<>> /\ Head(t) \in {NL, SP} THEN DropLeading(Tail(t)) ELSE t

RECURSIVE DropTrailing(_)
DropTrailing(t) ==
    IF t # <<>> /\ Last(t) \in {NL, SP} THEN DropTrailing(SubSeq(t, 1, Len(t) - 1)) ELSE t

\* t without the whitespace at its two ends
Trimmed(t) == DropTrailing(DropLeading(t))

\* a fenced function block: the open fence at i, the line break before the
\* closing fence at j
BlockAt(t, i, j) ==
    /\ i >= 1
    /\ i + 2 < j
    /\ j + 1 <= Len(t)
    /\ t[i] = FENCE /\ t[i + 1] = FUNCTION /\ t[i + 2] = NL
    /\ t[j] = NL /\ t[j + 1] = FENCE

BlockOpens(t) ==
    {i \in 1..(Len(t) - 2) :
        /\ t[i] = FENCE /\ t[i + 1] = FUNCTION /\ t[i + 2] = NL
        /\ \E j \in (i + 3)..Len(t) : BlockAt(t, i, j)}
HasBlock(t) == BlockOpens(t) # {}

\* the first block: the leftmost open fence that has a closing fence, up
\* to the nearest closing fence
FirstOpen(t) == Min(BlockOpens(t))
BlockCloses(t, i) == {j \in (i + 3)..Len(t) : BlockAt(t, i, j)}
FirstClose(t) == Min(BlockCloses(t, FirstOpen(t)))
FirstInterior(t) == SubSeq(t, FirstOpen(t) + 3, FirstClose(t) - 1)

\* the interior of the block opened at i, when it is a JSON object with a
\* name field: the interior up to a closing fence decodes to such an object
NamedBlockAt(t, i) ==
    \E j \in BlockCloses(t, i) :
        /\ LET v == Loads(SubSeq(t, i + 3, j - 1))
           IN  v.ok /\ v.val[1] = "obj" /\ \E k \in 1..Len(v.val[2]) : v.val[2][k][1] = "name"

NamedBlocks(t) == {i \in BlockOpens(t) : NamedBlockAt(t, i)}

\* the decoded object of the named block opened at i
NamedBlockValue(t, i) ==
    LET j == CHOOSE j \in BlockCloses(t, i) : Loads(SubSeq(t, i + 3, j - 1)).ok
    IN  Loads(SubSeq(t, i + 3, j - 1)).val

\* the value of a field of a decoded object, or a default
Field(obj, key, default) ==
    IF \E k \in 1..Len(obj[2]) : obj[2][k][1] = key
    THEN obj[2][CHOOSE k \in 1..Len(obj[2]) : obj[2][k][1] = key][2]
    ELSE default

\* the positions of the blocks a scan from the left finds, each block
\* taken whole and the scan resumed behind it
RECURSIVE ScanCovered(_, _)
ScanCovered(t, from) ==
    LET opens == {i \in BlockOpens(t) : i >= from}
    IN  IF opens = {} THEN {}
        ELSE LET i == Min(opens)
                 j == Min(BlockCloses(t, i))
             IN  (i..(j + 1)) \cup ScanCovered(t, j + 2)

\* t from position k on, without the positions in drop
RECURSIVE WithoutFrom(_, _, _)
WithoutFrom(t, drop, k) ==
    IF k > Len(t) THEN <<>>
    ELSE (IF k \in drop THEN <<>> ELSE <<t[k]>>) \o WithoutFrom(t, drop, k + 1)

\* t without the positions in drop
Without(t, drop) == WithoutFrom(t, drop, 1)

\* every fence marker of t lies in a block the scan finds
NoStrayFence(t) ==
    \A i \in 1..Len(t) : t[i] = FENCE => i \in ScanCovered(t, 1)

----------------------------------------------------------------------------
(* Claims on the response to a completion (SpecCompletion).                *)

\* C3 as stated: whenever the response carries a function_call, its content
\* holds no fenced function block, for every completion.
C3_NoBlockInContent ==
    (Answered /\ HasFunctionCall) => ~HasBlock(Message.content)

\* C3 amended: a response with a function_call never has the whole
\* completion as content, and its content holds no fenced function block
\* whenever the completion has no fence marker outside its fenced function
\* blocks.
C3_NoBlockInContentWithoutStrayFence ==
    (Answered /\ HasFunctionCall) =>
        /\ Message.content # CompletionText
        /\ Len(Message.content) < Len(CompletionText)
        /\ NoStrayFence(CompletionText) => ~HasBlock(Message.content)

\* C3 witness: a function call answered from a completion with two blocks
\* and text between them; nothing of either block is left in the content.
C3_Witness ==
    /\ Answered
    /\ HasFunctionCall
    /\ CompletionText = Block(WeatherCall) \o <<"Hello">> \o Block(OtherCall)
    /\ Message.content = <<"Hello">>

\* C4 as stated: when the completion holds a fenced function block whose
\* interior is a JSON object with a name, function_call.name is the name
\* in the first such block and function_call.arguments decodes to that
\* block's arguments ({} when it has none).
C4_FirstNamedBlockIsCalled ==
    (Answered /\ NamedBlocks(CompletionText) # {}) =>
        LET obj == NamedBlockValue(CompletionText, Min(NamedBlocks(CompletionText)))
        IN  /\ HasFunctionCall
            /\ Message.function_call.name = Field(obj, "name", None)
            /\ Loads(Message.function_call.arguments).ok
            /\ Loads(Message.function_call.arguments).val = Field(obj, "arguments", JObj(<<>>))

\* C4 amended: when the first fenced function block of the completion is a
\* JSON object with a non-empty name, function_call.name is that name and
\* function_call.arguments decodes to that block's arguments ({} when it
\* has none).
C4_FirstBlockIsCalled ==
    (/\ Answered
     /\ HasBlock(CompletionText)
     /\ FirstOpen(CompletionText) \in NamedBlocks(CompletionText)
     /\ Truthy(Field(NamedBlockValue(CompletionText, FirstOpen(CompletionText)), "name", None)))
        =>
        LET obj == NamedBlockValue(CompletionText, FirstOpen(CompletionText))
        IN  /\ HasFunctionCall
            /\ Message.function_call.name = Field(obj, "name", None)
            /\ Loads(Message.function_call.arguments).ok
            /\ Loads(Message.function_call.arguments).val = Field(obj, "arguments", JObj(<<>>))

\* C4 witness: the call of the first block is answered, with arguments
\* that are written otherwise than in the block and decode to the same.
C4_Witness ==
    /\ Answered
    /\ CompletionText = <<"Hello">> \o Block(WeatherCall) \o Block(OtherCall)
    /\ HasFunctionCall
    /\ Message.function_call.name = JStr("foo")
    /\ Message.function_call.arguments = <<"{", "\"x\"", ":", SP, "1", "}">>
    /\ Message.function_call.arguments # SubSeq(WeatherCall, 8, 12)

\* C5: on a text with no fenced function block parse_claude_response
\* returns (None, None) and remove_function_call_block returns the text
\* without the whitespace at its two ends, nothing else changed.
C5_NoBlockNoCall ==
    (Answered /\ ~HasBlock(CompletionText)) =>
        /\ parse_claude_response(CompletionText) = ParseResult(None, None)
        /\ remove_function_call_block(CompletionText) = Trimmed(CompletionText)

\* C5 witness: a completion with fence markers but no block, and
\* whitespace at both ends.
C5_Witness ==
    /\ Answered
    /\ CompletionText = <<NL, FENCE, "Hello", FUNCTION, NL>>
    /\ ~HasBlock(CompletionText)
    /\ remove_function_call_block(CompletionText) = <<FENCE, "Hello", FUNCTION>>

\* C6: when the interior of the first fenced function block is not
\* well-formed JSON the request is answered 200 without a function_call.
C6_MalformedBlockNoCall ==
    (/\ Answered
     /\ HasBlock(CompletionText)
     /\ ~Loads(FirstInterior(CompletionText)).ok)
        => /\ response.status = 200
           /\ ~HasFunctionCall

\* C6 witness: a malformed block before a well-formed one.
C6_Witness ==
    /\ Answered
    /\ CompletionText = Block(MalformedCall) \o Block(WeatherCall)
    /\ response.status = 200
    /\ ~HasFunctionCall

\* no function call is found in the completion: there is no first block
\* that decodes to an object with a non-empty name
NoCallFound(t) ==
    ~ /\ HasBlock(t)
      /\ Loads(FirstInterior(t)).ok
      /\ Loads(FirstInterior(t)).val[1] = "obj"
      /\ Truthy(Field(Loads(FirstInterior(t)).val, "name", None))

\* C7 as stated: when no function call is found in the completion the
\* response has exactly one choice, whose content is the completion
\* verbatim and whose message has no function_call field.
C7_NoCallContentVerbatim ==
    (Answered /\ NoCallFound(CompletionText)) =>
        /\ response.status = 200
        /\ Len(Choices) = 1
        /\ Message.content = CompletionText
        /\ ~HasFunctionCall

\* C8: every successful response has finish_reason "stop" and the three
\* token counts -1.
C8_StopAndUnknownUsage ==
    (Answered /\ response.status = 200) =>
        /\ \A k \in 1..Len(Choices) : Choices[k].finish_reason = "stop"
        /\ response.body.usage.prompt_tokens = -1
        /\ response.body.usage.completion_tokens = -1
        /\ response.body.usage.total_tokens = -1

\* C8 witness: a successful response with a function call.
C8_Witness ==
    /\ Answered
    /\ HasFunctionCall
    /\ Choices[1].finish_reason = "stop"
    /\ response.body.usage.total_tokens = -1

\* C9 as stated: only the first block, the one parse_claude_response
\* matched, is removed; later blocks are still in the content.
C9_OnlyFirstBlockRemoved ==
    (Answered /\ HasFunctionCall) =>
        Message.content =
            Trimmed(Without(CompletionText,
                            FirstOpen(CompletionText)..(FirstClose(CompletionText) + 1)))

\* C9 amended: remove_function_call_block removes every fenced function
\* block a scan from the left finds, the later ones with the first, and
\* nothing else but the whitespace at the two ends.
C9_EveryBlockRemoved ==
    Answered =>
        /\ remove_function_call_block(CompletionText)
               = Trimmed(Without(CompletionText, ScanCovered(CompletionText, 1)))
        /\ HasFunctionCall =>
               Message.content = Trimmed(Without(CompletionText, ScanCovered(CompletionText, 1)))

\* C9 witness: a completion with two blocks and text between them; the
\* content keeps the text and neither block.
C9_Witness ==
    /\ Answered
    /\ HasFunctionCall
    /\ CompletionText = Block(OtherCall) \o <<"Hello">> \o Block(WeatherCall)
    /\ Message.content = <<"Hello">>

----------------------------------------------------------------------------
(* Claims on the chat a request is addressed to (Spec).                    *)

ChatIdHeader == request.chat_id_header
CreateChatCalls == {k \in 1..Len(calls) : calls[k].op = "create_chat"}
SendMessageCalls == {k \in 1..Len(calls) : calls[k].op = "send_message"}

\* the chat of the request when given(header) says the header gives one:
\* no chat is created for a header that gives one, else one chat is created
\* first, for the active organization and project; the message goes to the
\* chat of the header or to the created chat, and a 200 answer is named
\* after the chat the message went to
ChatOfRequest(given) ==
    request.endpoint = "chat_completions" =>
        /\ given => CreateChatCalls = {}
        /\ Cardinality(CreateChatCalls) <= 1
        /\ Cardinality(SendMessageCalls) <= 1
        /\ \A k \in CreateChatCalls :
              /\ k = 1
              /\ calls[k].organization_id = store.active_organization_id
              /\ calls[k].project_uuid = store.active_project_id
        /\ \A k \in SendMessageCalls :
              /\ IF given
                 THEN k = 1 /\ calls[k].chat_id = ChatIdHeader
                 ELSE /\ k = 2
                      /\ CreateChatCalls = {1}
                      /\ calls[1].result.raised = ""
                      /\ calls[k].chat_id = calls[1].result.value
              /\ response.status = 200 =>
                     response.body.id = <<"chatcmpl-", calls[k].chat_id[2]>>
        /\ (pc = "send_message" /\ ~given) => CreateChatCalls = {1}

\* C10 as stated: a chat is created exactly once, for the active
\* organization and project, if the X-Claude-Chat-Id header is absent and
\* never if it is present; the message goes to that chat and the response
\* id is "chatcmpl-" and the same chat id.
C10_ChatCreatedIffHeaderAbsent == ChatOfRequest(ChatIdHeader # None)

\* C10 amended: the same, with a chat created if the header is absent or
\* empty and never if it is present and not empty.
C10_ChatCreatedIffNoChatIdGiven ==
    ChatOfRequest(ChatIdHeader # None /\ ChatIdHeader # JStr(""))

\* C10 witness: a request with an empty header is answered from a chat
\* created for it.
C10_Witness ==
    /\ pc = "idle"
    /\ request.endpoint = "chat_completions"
    /\ ChatIdHeader = JStr("")
    /\ Len(calls) = 2
    /\ calls[1].op = "create_chat"
    /\ calls[1].result = Returned(JStr("chat-new-2"))
    /\ calls[2].op = "send_message"
    /\ calls[2].chat_id = JStr("chat-new-2")
    /\ response.status = 200
    /\ response.body.id = <<"chatcmpl-", "chat-new-2">>

----------------------------------------------------------------------------
(* Claims on the requests chat_completions turns away (Spec).              *)

NoOrganization(st) == st.active_organization_id \in {None, JStr("")}
NoSessionKey(st) == st.session_key \in {None, JStr("")}

\* a POST that check_auth lets through to a handler with a provider
Handled ==
    /\ request.endpoint = "chat_completions"
    /\ request.method = "POST"
    /\ ~NoSessionKey(store)
    /\ provider # None

IsJson == request.content_type = "application/json"

\* C12: a chat-completions request made while no active organization id is
\* set invokes no provider operation, with or without an X-Claude-Chat-Id
\* header, and when it is a POST of a JSON object that check_auth lets
\* through it is answered 400.
C12_NoOrganizationNoCall ==
    (request.endpoint = "chat_completions" /\ NoOrganization(store)) =>
        /\ pc = "idle"
        /\ calls = <<>>
        /\ response.status # 200
        /\ (Handled /\ IsJson /\ request.body.kind = "object") =>
               response = [status |-> 400, body |-> [error |-> "No active organization set"]]

\* C12 witness: a request with the header and no organization: 400 and
\* nothing invoked.
C12_Witness ==
    /\ Handled
    /\ IsJson
    /\ request.body.kind = "object"
    /\ request.chat_id_header = JStr("chat-7")
    /\ store.active_organization_id = JStr("")
    /\ response.status = 400
    /\ calls = <<>>

\* C13: a POST to /v1/chat/completions that check_auth lets through is
\* answered 415 when its Content-Type is not application/json and 400 when
\* it is but the body is not JSON; no provider operation is invoked, and
\* the answer is the same with and without an active organization.
C13_UnsupportedOrMalformed ==
    /\ (Handled /\ ~IsJson) =>
          /\ response = [status |-> 415,
                         body |-> [error |-> "Unsupported Media Type: Content-Type must be application/json"]]
          /\ pc = "idle"
          /\ calls = <<>>
    /\ (Handled /\ IsJson /\ request.body.kind = "invalid") =>
          /\ response.status = 400
          /\ "error" \in DOMAIN response.body
          /\ response.body.error # "No active organization set"
          /\ pc = "idle"
          /\ calls = <<>>

\* C13 witness: an unparseable body, no active organization: the 400 of
\* the body.
C13_Witness ==
    /\ Handled
    /\ IsJson
    /\ request.body.kind = "invalid"
    /\ NoOrganization(store)
    /\ response = [status |-> 400, body |-> [error |-> "400 Bad Request: Failed to decode JSON object"]]

\* C14 as stated: a request whose body is JSON without a messages field is
\* rejected and never reaches the provider.
C14_MessagesRequired ==
    (/\ request.endpoint = "chat_completions"
     /\ request.body.kind = "object"
     /\ "messages" \notin DOMAIN request.body.data)
        => /\ calls = <<>>
           /\ pc = "idle" => response.status >= 400

----------------------------------------------------------------------------
(* Claims on the server as a whole (SpecServer).                           *)

\* a step that is the arrival of a request: the server was idle
Arrival == pc = "idle"

\* the endpoints check_auth asks a session key for
Protected == {"chat_completions", "list_models", "list_chats", "list_projects",
              "list_organizations", "test_api"}

\* the handler did not run: the request is answered at once, no provider
\* operation is invoked and the store is as it was
Turned(status) ==
    /\ response'.status = status
    /\ pc' = "idle"
    /\ calls' = <<>>
    /\ store' = store

\* C11 as stated: a request of any method to an endpoint outside {login,
\* config, index, check_login}, arriving while no session key is stored, is
\* answered 401 with a JSON error body; the handler does not run, no
\* provider operation is invoked and the store is unchanged.
C11_NoKeyNoEntry ==
    [][(Arrival /\ request'.endpoint \in Protected /\ NoSessionKey(store))
          => (Turned(401) /\ "error" \in DOMAIN response'.body)]_vars

\* C11 amended: the same for every method but OPTIONS; an OPTIONS request
\* is answered 204 with an empty body, and there too the handler does not
\* run, no provider operation is invoked and the store is unchanged.
C11_NoKeyNoEntryButOptions ==
    [][(Arrival /\ request'.endpoint \in Protected /\ NoSessionKey(store))
          => IF request'.method = "OPTIONS"
             THEN Turned(204) /\ response'.body = ""
             ELSE Turned(401) /\ "error" \in DOMAIN response'.body]_vars

\* C11 witness: a POST to /test_api and no session key: 401, nothing
\* invoked.
C11_Witness ==
    /\ pc = "idle"
    /\ request = PlainRequest("test_api", "POST")
    /\ NoSessionKey(store)
    /\ response = [status |-> 401, body |-> [error |-> "Not authenticated. Please log in first."]]
    /\ calls = <<>>

\* the provider operations of the request that failed: they raised, or
\* the stream of send_message carried an error event
HasErrorEvent(call) ==
    /\ call.op = "send_message"
    /\ call.result.raised = ""
    /\ \E k \in 1..Len(call.result.value) :
          /\ call.result.value[k][1] = "dict"
          /\ DOMAIN call.result.value[k][2] = {"error"}
FailedCalls == {k \in 1..Len(calls) : calls[k].result.raised # "" \/ HasErrorEvent(calls[k])}

\* a failure the handler answers by creating a default project: the 404 of
\* get_projects, or of the creation for an empty list, in list_projects
\* and test_api
WorkedAround(k) ==
    /\ request.endpoint \in {"list_projects", "test_api"}
    /\ calls[k].op \in {"get_projects", "create_project"}
    /\ calls[k].result.value # None
    /\ \E w \in 1..Len(calls[k].result.value) : calls[k].result.value[w] = "404"
    /\ k > 1 => calls[k - 1].result.raised = ""
    /\ IF k < Len(calls) THEN calls[k + 1].op = "create_project"
       ELSE pc \in {"list_projects_create_404", "test_api_create_404"}

\* C15 as stated: a provider failure is answered 500 on every endpoint but
\* POST /login, where it is answered 401.
C15_ProviderFailure500 ==
    (pc = "idle" /\ FailedCalls # {}) =>
        response.status = IF request.endpoint = "login" THEN 401 ELSE 500

\* C15 amended: the same, but /list_projects answers the failure of its
\* get_organizations 401, and in /list_projects and POST /test_api a 404
\* of get_projects, or of the creation for an empty list, is answered by
\* creating a default project, the request going on as if nothing failed.
C15_ProviderFailureAnswered ==
    (pc = "idle" /\ FailedCalls # {}) =>
        IF request.endpoint = "login" THEN response.status = 401
        ELSE IF request.endpoint = "list_projects" /\ 1 \in FailedCalls
        THEN response.status = 401
        ELSE IF Len(calls) \in FailedCalls THEN response.status = 500
        ELSE \A k \in FailedCalls : WorkedAround(k)

\* C15 witness: the listing of the projects answers 401 when
\* get_organizations fails.
C15_Witness ==
    /\ pc = "idle"
    /\ request.endpoint = "list_projects"
    /\ Len(calls) = 1
    /\ calls[1].op = "get_organizations"
    /\ calls[1].result.raised = "ProviderError"
    /\ response.status = 401

\* C16 as stated: once a provider operation has failed, no other is
\* invoked in the request and the response is an error response.
C16_NothingAfterFailure ==
    \A k \in FailedCalls :
        /\ k = Len(calls)
        /\ pc = "idle"
        /\ response.status >= 400

\* C16 amended: the same, but in /list_projects and POST /test_api a 404
\* of get_projects, or of the creation for an empty list, is followed by
\* the creation of a default project; no operation fails more than twice
\* in a request.
C16_NothingAfterFailureBut404 ==
    /\ Cardinality(FailedCalls) <= 2
    /\ \A k \in FailedCalls :
          \/ /\ k = Len(calls)
             /\ pc = "idle"
             /\ response.status >= 400
          \/ WorkedAround(k)

\* C16 witness: get_projects fails with a 404, a default project is
\* created and the listing answers 200.
C16_Witness ==
    /\ pc = "idle"
    /\ request.endpoint = "list_projects"
    /\ Len(calls) = 3
    /\ calls[2].op = "get_projects"
    /\ calls[2].result = RaisedNotFound
    /\ calls[3].op = "create_project"
    /\ calls[3].result.raised = ""
    /\ response.status = 200

\* the request is answered after one get_organizations, which returned
\* a list that is not empty
OrganizationsReturned ==
    /\ pc = "idle"
    /\ Len(calls) = 1
    /\ calls[1].op = "get_organizations"
    /\ calls[1].result.raised = ""
    /\ calls[1].result.value # <<>>

\* C17: after a POST /login with a session key that is not empty, for which
\* the provider returns a list of organizations that is not empty, the
\* response is 200, the stored session key is the submitted one, its expiry
\* is 24 hours after the request and the active organization is the first
\* of the list, whichever was active before.
C17_LoginStoresKeyAndFirstOrganization ==
    (request.endpoint = "login" /\ OrganizationsReturned) =>
        /\ response.status = 200
        /\ get_session_key(store) = <<request.form.session_key, request.at + 24>>
        /\ store.active_organization_id = calls[1].result.value[1].id

\* C17 witness: org-1 is the only organization a store starts with; a
\* login at time 1 with sk-2, answered with org-2 first, leaves sk-2,
\* expiry 25 and org-2.
C17_Witness ==
    /\ request = FormRequest("login", [session_key |-> JStr("sk-2")], 1)
    /\ OrganizationsReturned
    /\ response.status = 200
    /\ store.session_key = JStr("sk-2")
    /\ store.session_key_expiry = 25
    /\ store.active_organization_id = JStr("org-2")
    /\ response.body.active_organization = "Two"

C19_CheckLoginActiveInList ==
    [][/\ (/\ request'.endpoint = "check_login"
           /\ request'.method = "GET"
           /\ pc' = "idle"
           /\ response'.status = 200)
          => /\ Len(calls') = 1
             /\ calls'[1].op = "get_organizations"
             /\ LET organizations == calls'[1].result.value
                    stored == WithId(organizations, store'.active_organization_id)
                IN  /\ stored # {}
                    /\ \A k \in stored :
                          response'.body.active_organization = organizations[k].name
                    /\ WithId(organizations, store.active_organization_id) # {}
                          => store' = store
       /\ (Arrival /\ request'.endpoint = "check_login" /\ request'.method = "GET"
              /\ NoSessionKey(store))
          => /\ Turned(401)
             /\ response'.body = [status |-> "Not logged in"]]_vars

\* C19 witness: org-1 is active and second in the list returned; it is
\* still the active one and the one reported.
C19_Witness ==
    /\ pc = "idle"
    /\ request = PlainRequest("check_login", "GET")
    /\ response.status = 200
    /\ Len(calls) = 1
    /\ calls[1].result.value =
          <<Organization("org-2", "Two"), Organization("org-1", "One")>>
    /\ store.active_organization_id = JStr("org-1")
    /\ response.body.active_organization = "One"

\* the operation a listing endpoint gets its list with
ListOp ==
    [list_chats |-> "get_chat_conversations",
     list_projects |-> "get_projects",
     list_organizations |-> "get_organizations"]

\* a listing endpoint answered 200 and its list was returned by the provider:
\* the first invocation of the operation (list_projects verifies the session
\* key with get_organizations before, list_chats gets its list again after a
\* creation)
Listings == {k \in 1..Len(calls) : calls[k].op = ListOp[request.endpoint]}
Listed == calls[Min(Listings)].result
ListServed ==
    /\ pc = "idle"
    /\ request.endpoint \in DOMAIN ListOp
    /\ request.method = "GET"
    /\ response.status = 200
    /\ Listings # {}
    /\ Listed.raised = ""

\* the creations attempted, and those that succeeded
Creations == {k \in 1..Len(calls) : calls[k].op \in {"create_chat", "create_project"}}
Created == {k \in Creations : calls[k].result.raised = ""}

\* C20 as stated: each of /list_chats, /list_projects and
\* /list_organizations answers 200 for an empty list after a creation, and
\* for a list that is not empty creates nothing and returns it as given.
C20_ListingCreatesDefault ==
    ListServed =>
        IF Listed.value = <<>>
        THEN Created # {}
        ELSE Creations = {} /\ response.body = Listed.value

\* C20 amended: the same of /list_chats and /list_projects, one default
\* resource being created for an empty list; /list_organizations creates
\* nothing and returns the list as given, empty or not.
C20_ChatsAndProjectsCreateDefault ==
    ListServed =>
        IF Listed.value = <<>> /\ request.endpoint # "list_organizations"
        THEN Cardinality(Created) = 1 /\ Max(Created) > Min(Listings)
        ELSE Creations = {} /\ response.body = Listed.value

\* C20 witness: get_projects returns an empty list, a default project is
\* created and is the list of the 200 response.
C20_Witness ==
    /\ ListServed
    /\ request.endpoint = "list_projects"
    /\ Listed.value = <<>>
    /\ Len(calls) = 3
    /\ calls[3].op = "create_project"
    /\ calls[3].result.raised = ""
    /\ response.body = <<calls[3].result.value>>

\* C21: every response with an error status is a JSON object that carries
\* the message in a field error. (The 405 of a method the route does not
\* allow is the page of the framework, not a response of the application,
\* and is left aside.)
C21_ErrorsCarryErrorField ==
    (pc = "idle" /\ response.status >= 400 /\ response.status # 405)
        => "error" \in DOMAIN response.body

----------------------------------------------------------------------------
(* Claims on the completion and the prompt of a request (Spec).            *)

\* a fragment: a plain string, or an event that carries completion or
\* content, and its text
IsFragment(event) ==
    event[1] = "str" \/ DOMAIN event[2] \in {{"completion"}, {"content"}}
FragmentText(event) ==
    IF event[1] = "str" THEN event[2]
    ELSE IF "completion" \in DOMAIN event[2] THEN event[2].completion
    ELSE event[2].content
FragmentTexts(events) == Flatten([k \in 1..Len(events) |-> FragmentText(events[k])])

\* the request is answered after send_message delivered fragments only
FragmentsDelivered ==
    /\ pc = "idle"
    /\ request.endpoint = "chat_completions"
    /\ SendMessageCalls # {}
    /\ LET sent == calls[Max(SendMessageCalls)].result
       IN  /\ sent.raised = ""
           /\ \A k \in 1..Len(sent.value) : IsFragment(sent.value[k])

\* C22: for every sequence of fragments send_message delivers without an
\* error, the response is the one built from the concatenation of the texts
\* of all the fragments in the order of delivery; a completion returned as
\* one string, iterated character by character, gives that string.
C22_CompletionIsConcatenation ==
    FragmentsDelivered =>
        LET sent == calls[Max(SendMessageCalls)]
            built == openai_response(sent.chat_id, "", FragmentTexts(sent.result.value))
        IN  /\ response.status = built.status
            /\ response.status = 200 => response.body.choices = built.body.choices
            /\ \A text \in {<<"Hello", SP, "there">>} :
                  (sent.result.value = Iterate(text))
                     => response.body.choices[1].message.content = text

\* C22 witness: a string, a completion event and a content event make
\* "Hello there".
C22_Witness ==
    /\ FragmentsDelivered
    /\ calls[Max(SendMessageCalls)].result.value =
          <<StrEvent(<<"Hello">>), DictEvent([completion |-> <<SP>>]),
            DictEvent([content |-> <<"there">>])>>
    /\ response.status = 200
    /\ response.body.choices[1].message.content = <<"Hello", SP, "there">>

\* the prompt of the request with its tools field taken away
PromptWithoutTools == BuildPrompt(ConvertMessages(RequestMessages))

\* C23: with at least one tool declared the prompt begins with a System
\* block that holds the tools preamble, and goes on with the messages of the
\* caller in their order; with no tool declared the preamble is empty and
\* the prompt is that of the same request without a tools field.
C23_PreambleLeadsThePrompt ==
    PromptBuilt =>
        LET preamble == generate_functions_prompt(RequestTools)
        IN  IF RequestTools # <<>>
            THEN /\ SubSeq(preamble, 1, Len(FunctionsHeader)) = FunctionsHeader
                 /\ locals.prompt =
                       <<"System", ":", SP>> \o preamble \o <<NL, NL>> \o PromptWithoutTools
            ELSE /\ preamble = <<>>
                 /\ locals.prompt = PromptWithoutTools

\* C23 witness: a tool is declared and the caller sends a system message
\* and a user message; the prompt has the preamble, then the two.
C23_Witness ==
    /\ pc = "send_message"
    /\ RequestTools = <<WeatherTool>>
    /\ Len(RequestMessages) = 2
    /\ RequestMessages[1].role = "system"
    /\ RequestMessages[2].role = "user"
    /\ RequestMessages[1].content = <<"Hi">>
    /\ RequestMessages[2].content = <<"a", NL, "b">>
    /\ locals.prompt =
          <<"System", ":", SP>> \o generate_functions_prompt(<<WeatherTool>>) \o <<NL, NL>>
          \o <<"System", ":", SP, "Hi", NL, NL, "Human", ":", SP, "a", NL, "b", NL, NL>>

\* the requests that differ from r at most in model and max_tokens
ModelChoices == {"claude-2", "gpt-4"}
TokenChoices == {1, 150}
DictWithout(d, keys) == [k \in DOMAIN d \ keys |-> d[k]]
DictWith(d, key, value) == [k \in DOMAIN d \cup {key} |-> IF k = key THEN value ELSE d[k]]
Variants(r) ==
    LET rest == DictWithout(r.body.data, {"model", "max_tokens"})
        models == {rest} \cup {DictWith(rest, "model", m) : m \in ModelChoices}
        both == models \cup {DictWith(d, "max_tokens", t) : d \in models, t \in TokenChoices}
    IN  {[r EXCEPT !.body.data = d] : d \in both}

\* what a step of the handler shows but for the model it echoes
ButModel(step) == [step EXCEPT !.locals.model = ""]

\* C24: max_tokens and model never influence what is sent to the provider.
\* Every request that differs from the one served at most in these two
\* fields leaves the handler at the same point with the same organization,
\* project, chat and prompt; the operations invoked carry the organization
\* and the project of the store, the chat of the header or the created one
\* and the prompt of tools and messages; and the response is, but for its
\* field model, the one built from the chat and the completion alone.
C24_ModelAndMaxTokensNotSent ==
    (request.endpoint = "chat_completions" /\ request.method = "POST"
        /\ request.content_type = "application/json" /\ request.body.kind = "object")
    => /\ \A v \in Variants(request) :
             ButModel(chat_prologue(v, store, provider))
                = ButModel(chat_prologue(request, store, provider))
       /\ \A k \in CreateChatCalls :
             /\ calls[k].organization_id = store.active_organization_id
             /\ calls[k].project_uuid = store.active_project_id
       /\ \A k \in SendMessageCalls :
             /\ calls[k].organization_id = store.active_organization_id
             /\ calls[k].prompt = BuildPrompt(claude_messages(RequestTools, RequestMessages))
             /\ calls[k].chat_id = IF Truthy(request.chat_id_header)
                                   THEN request.chat_id_header
                                   ELSE calls[k - 1].result.value
             /\ DOMAIN calls[k] = {"op", "organization_id", "chat_id", "prompt", "result"}
       /\ (pc = "idle" /\ response.status = 200) =>
             LET sent == calls[Max(SendMessageCalls)]
                 built == openai_response(sent.chat_id, "",
                                          Accumulate(sent.result.value, <<>>).text)
             IN  [response.body EXCEPT !.model = ""] = built.body

\* C24 witness: a request with model claude-2 and max_tokens 150 is
\* answered 200; claude-2 is echoed and the prompt holds neither.
C24_Witness ==
    /\ pc = "idle"
    /\ request.endpoint = "chat_completions"
    /\ request.body.kind = "object"
    /\ {"model", "max_tokens"} \subseteq DOMAIN request.body.data
    /\ request.body.data.max_tokens = 150
    /\ response.status = 200
    /\ response.body.model = "claude-2"
    /\ calls[Len(calls)].op = "send_message"
    /\ calls[Len(calls)].prompt =
          <<"System", ":", SP, "You are a helpful assistant.", NL, NL,
            "Human", ":", SP, "What is the capital of France?", NL, NL>>

----------------------------------------------------------------------------
(* Claims on the store across requests (SpecServer).                       *)

\* the endpoints that write the store
StoreWriters == {"login", "config", "check_login"}

\* C25: only /login, /config and /check_login write the store: every step
\* of a request to another endpoint, POST /v1/chat/completions, GET
\* /v1/models and the three listings among them, leaves session key,
\* expiry, active organization and active project as they were, whether
\* the request succeeds or fails.
C25_OnlyLoginConfigCheckLoginWrite ==
    [][request'.endpoint \notin StoreWriters => store' = store]_vars

\* C25 witness: the listing of the projects of a store with no active
\* project has created a default project and answered 200; the store has
\* no active project still.
C25_Witness ==
    /\ pc = "idle"
    /\ request.endpoint = "list_projects"
    /\ response.status = 200
    /\ calls[Len(calls)].op = "create_project"
    /\ store.active_project_id = None
    /\ store.session_key = JStr("sk-3")

----------------------------------------------------------------------------
(* claude_ai.py: what _make_request raises when the upstream answers an    *)
(* HTTP error.                                                             *)

\* the tokens of a text that json.loads is given
Tokenize(text) ==
    CASE text = "{}" -> <<"{", "}">>
      [] text = "[]" -> <<"[", "]">>
      [] text = "{\"resetsAt\": 1}" -> <<"{", "\"resetsAt\"", ":", SP, "1", "}">>
      [] text = "{\"resetsAt\": \"x\"}" -> <<"{", "\"resetsAt\"", ":", SP, "\"x\"", "}">>
      [] OTHER -> <<text>>

\* v[key]: the value, KeyError for a dict without the key, TypeError for
\* what is no dict
Subscript(v, key) ==
    IF ~IsDict(v) THEN Raised("TypeError")
    ELSE IF \A i \in 1..Len(v[2]) : v[2][i][1] # key
    THEN [raised |-> "KeyError", value |-> <<"'", key, "'">>]
    ELSE Returned(DictGet(v, key, None))

\* json.loads of a text
LoadsText(t) ==
    LET decoded == Loads(t)
    IN  IF decoded.ok THEN Returned(decoded.val)
        ELSE [raised |-> "JSONDecodeError",
              value |-> <<"Expecting value: line 1 column 1 (char 0)">>]

\* json.loads of a value: TypeError for what is no text
LoadsValue(v) == IF v[1] # "str" THEN Raised("TypeError") ELSE LoadsText(Tokenize(v[2]))

\* datetime.fromtimestamp(..).astimezone().strftime(..) for the second 0 or
\* 1 of the epoch, the local zone being UTC; TypeError for what is no number
FormatTime(v) ==
    IF v[1] \notin {"num", "bool"} THEN Raised("TypeError")
    ELSE Returned(<<"Thu Jan 01 1970 00:00:0",
                    (IF v[2] \in {"1", "true"} THEN "1" ELSE "0"), " UTC+0000">>)

\* the next step of a try block: what was raised goes on, a value is
\* handed to the step
AndThen(result, Step(_)) == IF result.raised # "" THEN result ELSE Step(result.value)

ErrorOf(error_data) == Subscript(error_data, "error")
MessageOf(error) == Subscript(error, "message")
ResetsAtOf(limits) == Subscript(limits, "resetsAt")

\* the try block of the branch for 429: the formatted reset time, or the
\* exception raised on the way to it
ResetTime(content_str) ==
    AndThen(AndThen(AndThen(AndThen(AndThen(LoadsText(content_str),
        ErrorOf), MessageOf), LoadsValue), ResetsAtOf), FormatTime)

\* what handle_http_error raises for the status code and the body of the
\* upstream's answer
handle_http_error(code, content_str) ==
    IF code = 403
    THEN [raised |-> "ProviderError", value |-> <<"Received a 403 Forbidden error.">>]
    ELSE IF code = 429
    THEN LET formatted_time == ResetTime(content_str)
         IN  IF formatted_time.raised = ""
             THEN [raised |-> "ProviderError",
                   value |-> <<"Message limit exceeded. Try again after ">>
                             \o formatted_time.value]
             ELSE IF formatted_time.raised \in {"KeyError", "JSONDecodeError"}
             THEN [raised |-> "ProviderError",
                   value |-> <<"HTTP 429: Too Many Requests. Failed to parse error response: ">>
                             \o formatted_time.value]
             ELSE formatted_time
    ELSE [raised |-> "ProviderError",
          value |-> <<"API request failed with status code ", ToString(code), ": ">>
                    \o content_str]

\* get_organizations when the upstream answers its request with an HTTP
\* error: the operation, the answer and what _make_request raised
UpstreamCall(op, reply) ==
    [op |-> op, organization_id |-> None, upstream |-> reply,
     result |-> handle_http_error(reply.code, reply.content)]

ListOrganizationsUpstream(Replies) ==
    /\ pc = "list_organizations_get"
    /\ \E reply \in Replies :
          LET call == UpstreamCall("get_organizations", reply)
          IN  Proceed(call, list_organizations_get(call.result, locals, store))

----------------------------------------------------------------------------
(* SpecUpstream: /list_organizations asked again and again of an upstream  *)
(* that answers HTTP errors.                                               *)

ErrorObject(message) == <<"{", "\"error\"", ":", SP, "{", "\"message\"", ":", SP>> \o message \o <<"}", "}">>

\* the bodies of the upstream's answers
Payloads ==
    { <<>>,
      <<"Too many requests">>,
      <<"null">>,
      <<"[", "]">>,
      <<"{", "}">>,
      <<"{", "\"error\"", ":", SP, "\"limit\"", "}">>,
      <<"{", "\"error\"", ":", SP, "null", "}">>,
      <<"{", "\"error\"", ":", SP, "{", "}", "}">>,
      ErrorObject(<<"\"limit\"">>),
      ErrorObject(<<"1">>),
      ErrorObject(<<Quoted("{}")>>),
      ErrorObject(<<Quoted("[]")>>),
      ErrorObject(<<Quoted("{\"resetsAt\": 1}")>>),
      ErrorObject(<<Quoted("{\"resetsAt\": \"x\"}")>>) }

UpstreamReplies == [code : {403, 404, 429, 500}, content : Payloads]

InitUpstream ==
    /\ store \in {st \in Stores : Truthy(st.session_key)}
    /\ provider = ClaudeProvider
    /\ pc = "idle"
    /\ request = NoRequest
    /\ locals = NoLocals
    /\ calls = <<>>
    /\ response = NoResponse

NextUpstream ==
    \/ ListOrganizations({PlainRequest("list_organizations", "GET")})
    \/ ListOrganizationsUpstream(UpstreamReplies)

SpecUpstream == InitUpstream /\ [][NextUpstream]_vars

----------------------------------------------------------------------------
(* Claims on the errors of the upstream (SpecUpstream).                    *)

\* the reset time the payload carries, apart from the code: the payload is
\* an object whose error is an object whose message is the text of an
\* object with a number resetsAt
CarriesResetTime(content) ==
    LET decoded == Loads(content)
        error == DictGet(decoded.val, "error", None)
        message == DictGet(error, "message", None)
        limits == Loads(Tokenize(message[2]))
    IN  /\ decoded.ok /\ IsDict(decoded.val)
        /\ IsDict(error)
        /\ message[1] = "str"
        /\ limits.ok /\ IsDict(limits.val)
        /\ DictGet(limits.val, "resetsAt", None)[1] = "num"

\* the tokens of part, in a row, in whole
Conveys(whole, part) ==
    \E i \in 0..(Len(whole) - Len(part)) : SubSeq(whole, i + 1, i + Len(part)) = part

\* C26: when the upstream answers 429 the provider raises a ProviderError,
\* for every payload, never another exception; its message names the reset
\* time when the payload carries one and conveys the payload otherwise.
C26_RateLimitIsProviderError ==
    \A k \in 1..Len(calls) :
        ("upstream" \in DOMAIN calls[k] /\ calls[k].upstream.code = 429) =>
            /\ calls[k].result.raised = "ProviderError"
            /\ IF CarriesResetTime(calls[k].upstream.content)
               THEN Conveys(calls[k].result.value, <<"Thu Jan 01 1970 00:00:0", "1", " UTC+0000">>)
               ELSE Conveys(calls[k].result.value, calls[k].upstream.content)

----------------------------------------------------------------------------
(* Claims on a first block that is no call (SpecCompletion).               *)

\* the interior of the first block is valid JSON but no call: no object, or
\* an object without a name that is not empty
DecodesToNoCall(t) ==
    /\ HasBlock(t)
    /\ Loads(FirstInterior(t)).ok
    /\ \/ Loads(FirstInterior(t)).val[1] # "obj"
       \/ ~Truthy(Field(Loads(FirstInterior(t)).val, "name", None))

\* C27: when the interior of the first fenced block is valid JSON that is
\* no object, or an object without a non-empty name, the request is
\* answered 200, never 500, with no function_call field and the completion
\* verbatim as content.
C27_NonObjectBlockAnswered200 ==
    (Answered /\ DecodesToNoCall(CompletionText)) =>
        /\ response.status = 200
        /\ ~HasFunctionCall
        /\ Message.content = CompletionText

----------------------------------------------------------------------------
(* SpecRace: a chat-completions request in flight while other requests,    *)
(* served by other threads, write the store.  Of those only the writes     *)
(* are steps here: the key stored by login, the organization made active   *)
(* by login and by check_login.                                            *)

OtherThread == UNCHANGED <<provider, pc, request, locals, calls, response>>

ConcurrentLogin(Reqs) ==
    /\ \E r \in To(Reqs, "login") : r.method = "POST" /\ store' = login(r, store).store
    /\ OtherThread

ConcurrentLoginVerify(Lists) ==
    /\ \E result \in Results(Lists) : store' = login_verify(result, store).store
    /\ OtherThread

ConcurrentCheckLoginVerify(Lists) ==
    /\ \E result \in Results(Lists) : store' = check_login_verify(result, store).store
    /\ OtherThread

RaceRequests ==
    {ChatRequest("POST", "application/json",
                 JsonBody([messages |-> <<[role |-> "user", content |-> <<"Hi">>]>>]), h) :
        h \in {None, JStr("chat-7")}}

NextRace ==
    \/ ReceiveChat(RaceRequests)
    \/ CreateChat(NewChatIds)
    \/ SendMessage({<<StrEvent(<<"Hello", SP, "there">>)>>})
    \/ ConcurrentLogin({FormRequest("login", [session_key |-> JStr("sk-2")], t) : t \in Times})
    \/ ConcurrentLoginVerify(OrgLists)
    \/ ConcurrentCheckLoginVerify(OrgLists)

SpecRace == InitLoggedIn /\ [][NextRace]_vars

----------------------------------------------------------------------------
(* Claims on the race with the settings (SpecRace).                        *)

\* C28: within one chat-completions request the active organization is
\* read once: the organization passed to create_chat is the one passed to
\* send_message, whatever login and check_login write in between.
C28_OneOrganizationPerRequest ==
    request.endpoint = "chat_completions" =>
        /\ \A j \in CreateChatCalls, k \in SendMessageCalls :
              calls[j].organization_id = calls[k].organization_id
        /\ \A k \in 1..Len(calls) :
              pc # "idle" => calls[k].organization_id = locals.organization_id

\* C28 witness: the chat was created and the message sent for org-1 while
\* a login made org-2 the active organization.
C28_Witness ==
    /\ pc = "idle"
    /\ request.endpoint = "chat_completions"
    /\ response.status = 200
    /\ Len(calls) = 2
    /\ calls[1].op = "create_chat"
    /\ calls[2].op = "send_message"
    /\ calls[1].organization_id = JStr("org-1")
    /\ calls[2].organization_id = JStr("org-1")
    /\ store.active_organization_id = JStr("org-2")

----------------------------------------------------------------------------
(* Claims on a login that fails (SpecServer).                              *)

\* a POST /login with a session key that is not empty is answered after a
\* get_organizations that raised or returned an empty list
VerificationFailed ==
    /\ pc = "idle"
    /\ request.endpoint = "login"
    /\ request.method = "POST"
    /\ Truthy(FormGet(request, "session_key"))
    /\ Len(calls) = 1
    /\ calls[1].op = "get_organizations"
    /\ calls[1].result.raised # "" \/ calls[1].result.value = <<>>

\* C29: a failed login is not rolled back.  After a POST /login whose
\* verification fails the response is 401 and the submitted key is the
\* stored one, so that check_auth lets the requests to the protected
\* endpoints through; no step of a login that does not succeed changes the
\* active organization.
C29_FailedLoginKeepsKey ==
    /\ [](VerificationFailed =>
            /\ response.status = 401
            /\ store.session_key = request.form.session_key
            /\ \A e \in Protected : check_auth(PlainRequest(e, "GET"), store) = NoResponse)
    /\ [][(request'.endpoint = "login" /\ ~(pc' = "idle" /\ response'.status = 200))
             => store'.active_organization_id = store.active_organization_id]_vars

\* C29 witness: the store held sk-1 or no key; sk-2 is submitted, the
\* provider raises, the answer is 401, sk-2 is stored and org-1 is active
\* as before.
C29_Witness ==
    /\ VerificationFailed
    /\ request.form.session_key = JStr("sk-2")
    /\ calls[1].result.raised = "ProviderError"
    /\ response.status = 401
    /\ store.session_key = JStr("sk-2")
    /\ store.active_organization_id = JStr("org-1")

=============================================================================
